---- MODULE Spec2Model ----
(***************************************************************************)
(* worklog: the event acquisition pipeline.                                *)
(*   cmd.run                  the aggregator (one goroutine per token)     *)
(*   github.FetchEvents       GitHub adapter, phase 1 + two sub-fetches    *)
(*   gitlab.FetchEvents       GitLab adapter, phase 1 + two sub-fetches    *)
(* Instants are small naturals; strings built with fmt.Sprintf are tuples  *)
(* of their parts; an HTTP exchange is one step whose response is chosen   *)
(* by the environment.                                                     *)
(***************************************************************************)
EXTENDS Naturals, Integers, Sequences, FiniteSets, TLC

VARIABLES
    main,      \* cmd.run: tokens, allEvents, errs, mu, goroutine positions, result
    github,    \* github.FetchEvents: locals of the call and of its two goroutines
    gitlab,    \* gitlab.FetchEvents: locals of the call and of its two goroutines
    net,       \* requests issued so far, per platform and per kind
    stderr     \* the lines written to os.Stderr, in order

vars == <<main, github, gitlab, net, stderr>>

-----------------------------------------------------------------------------
(* Bounds of the model *)

MaxTime == 3
PageLen == 2
GitHubPages == 2
GitLabPages == 2

\* the limits of the two page loops as the source has them
GithubMaxPages == 10
GitlabMaxPages == 100

-----------------------------------------------------------------------------
(* Time window *)

Times == 0..MaxTime
since == 1
until == 2

Before(t, u) == t < u
After(t, u) == t > u

-----------------------------------------------------------------------------
(* report.Event and its categories *)

CategoryCommit == "Commits"
CategoryPR == "Pull Requests / Merge Requests"
CategoryReview == "Code Reviews"
CategoryReviewComment == "Review Comments"
CategoryIssue == "Issues"
CategoryComment == "Comments"
CategoryPipeline == "CI Pipeline Failures"
CategoryPendingReview == "Pending Reviews"

Event(cat, action, title, url, repo, source, createdAt) ==
    [Category |-> cat, Action |-> action, Title |-> title, URL |-> url,
     Repo |-> repo, Source |-> source, CreatedAt |-> createdAt]

-----------------------------------------------------------------------------
(* Sequences *)

RECURSIVE Concat(_)
Concat(ss) == IF ss = <<>> THEN <<>> ELSE Head(ss) \o Concat(Tail(ss))

SeqsUpTo(S, n) == UNION {[1..k -> S] : k \in 0..n}

Range(s) == {s[i] : i \in 1..Len(s)}

-----------------------------------------------------------------------------
(* HTTP: what http.DefaultClient.Do and the decoding of the body can give.  *)
(* transport: Do returned an error; otherwise a status and a body that      *)
(* decodes into the expected type (decodes, with value v) or does not.      *)

StatusOK == "200 OK"
StatusError == "500 Internal Server Error"

Undecodable == [decodes |-> FALSE, v |-> <<>>]
Decoded(v) == [decodes |-> TRUE, v |-> v]

Responses(values) ==
    {[transport |-> TRUE, status |-> "", body |-> Undecodable]}
    \cup {[transport |-> FALSE, status |-> s, body |-> b] :
            s \in {StatusOK, StatusError},
            b \in {Undecodable} \cup {Decoded(v) : v \in values}}

\* getUser, fetchPendingReviews, resolveProject: status is checked, then the body decoded
Succeeds(r) == ~r.transport /\ r.status = StatusOK /\ r.body.decodes

\* the primary feed and fetchCIFailures: the body is decoded, then the status checked
PageOK(r) == ~r.transport /\ r.body.decodes /\ r.status = StatusOK

-----------------------------------------------------------------------------
(* GitHub raw records *)

NoPayload == [valid |-> FALSE, Action |-> "", Merged |-> FALSE, Number |-> 0,
              Title |-> "", HTMLURL |-> <<>>, State |-> "", Commits |-> <<>>]

PushPayload(messages) == [NoPayload EXCEPT !.valid = TRUE, !.Commits = messages]
PRPayload(action, merged, n, title) ==
    [NoPayload EXCEPT !.valid = TRUE, !.Action = action, !.Merged = merged,
                      !.Number = n, !.Title = title, !.HTMLURL = <<"pr-url">>]
ReviewPayload(state, n, title) ==
    [NoPayload EXCEPT !.valid = TRUE, !.State = state, !.Number = n,
                      !.Title = title, !.HTMLURL = <<"review-url">>]
IssuePayload(action, n, title) ==
    [NoPayload EXCEPT !.valid = TRUE, !.Action = action, !.Number = n,
                      !.Title = title, !.HTMLURL = <<"issue-url">>]

GhRaw(type, repoName, payload, createdAt) ==
    [Type |-> type, Repo |-> repoName, Payload |-> payload, CreatedAt |-> createdAt]

\* a title that keeps the whole commit message
firstLineWhole(s) == s

firstLine(s) ==
    IF \E i \in 1..Len(s) : s[i] = "\n"
    THEN LET i == CHOOSE i \in 1..Len(s) :
                    s[i] = "\n" /\ \A j \in 1..(i - 1) : s[j] # "\n"
         IN SubSeq(s, 1, i - 1)
    ELSE s

NumberTitle(sigil, n, title) == <<sigil, ToString(n), " ", title>>

\* an action that follows the merged flag alone
GithubPRActionByFlag(p) == IF p.Merged THEN "merged" ELSE p.Action

GithubPRAction(p) ==
    IF p.Action = "closed" /\ p.Merged THEN "merged" ELSE p.Action

GithubParseEvent(e) ==
    LET p == e.Payload
        one(cat, action, title, url) ==
            <<Event(cat, action, title, url, e.Repo, "github", e.CreatedAt)>>
    IN CASE e.Type = "PushEvent" ->
              IF ~p.valid THEN <<>>
              ELSE [i \in 1..Len(p.Commits) |->
                      Event(CategoryCommit, "pushed", firstLine(p.Commits[i]), <<>>,
                            e.Repo, "github", e.CreatedAt)]
         [] e.Type = "PullRequestEvent" ->
              IF ~p.valid THEN <<>>
              ELSE one(CategoryPR, GithubPRAction(p),
                       NumberTitle("#", p.Number, p.Title), p.HTMLURL)
         [] e.Type = "PullRequestReviewEvent" ->
              IF ~p.valid THEN <<>>
              ELSE one(CategoryReview, p.State,
                       NumberTitle("#", p.Number, p.Title), p.HTMLURL)
         [] e.Type = "PullRequestReviewCommentEvent" ->
              IF ~p.valid THEN <<>>
              ELSE one(CategoryReviewComment, "commented",
                       NumberTitle("#", p.Number, p.Title), p.HTMLURL)
         [] e.Type = "IssuesEvent" ->
              IF ~p.valid THEN <<>>
              ELSE one(CategoryIssue, p.Action,
                       NumberTitle("#", p.Number, p.Title), p.HTMLURL)
         [] e.Type = "IssueCommentEvent" ->
              IF ~p.valid THEN <<>>
              ELSE one(CategoryComment, "commented",
                       NumberTitle("#", p.Number, p.Title), p.HTMLURL)
         [] OTHER -> <<>>

-----------------------------------------------------------------------------
(* GitHub: what the server may answer *)

GhUsers == {[Login |-> "octo"]}

GhPast == GhRaw("PullRequestEvent", "o/a", PRPayload("opened", FALSE, 1, "old"), 0)
GhPush == GhRaw("PushEvent", "o/a", PushPayload(<< <<"F", "\n", "D">>, <<"G">> >>), since)
GhMerged == GhRaw("PullRequestEvent", "o/b", PRPayload("closed", TRUE, 2, "fix"), until)
GhWatch == GhRaw("WatchEvent", "o/b", NoPayload, since)
GhFuture == GhRaw("IssuesEvent", "o/b", IssuePayload("opened", 3, "new"), MaxTime)

\* the records a page may hold
GhRecords == {GhPast, GhPush, GhMerged, GhWatch, GhFuture}

\* the pages the server may answer with, to the adapter alone and under run
GhPages == SeqsUpTo(GhRecords, PageLen)
GhPagesRun == {<<>>, <<GhMerged>>}

WorkflowRun(name, createdAt) ==
    [Name |-> name, HeadBranch |-> "main", HTMLURL |-> <<"run-url">>, CreatedAt |-> createdAt]

GhRunLists ==
    {<<>>, <<WorkflowRun("ci", until)>>,
     <<WorkflowRun("ci", MaxTime), WorkflowRun("lint", since)>>}
GhRunListsRun == {<<WorkflowRun("ci", until)>>}

SearchIssue(n, repositoryURL, createdAt) ==
    [Number |-> n, Title |-> "review me", HTMLURL |-> <<"item-url">>,
     RepositoryURL |-> repositoryURL, CreatedAt |-> createdAt]

GhItemLists ==
    {<<>>,
     <<SearchIssue(7, <<"https://api.github.com", "/repos/", "o/z">>, 0)>>,
     <<SearchIssue(8, <<"https://api.github.com/x">>, MaxTime)>>}
GhItemListsRun == {<<SearchIssue(7, <<"https://api.github.com", "/repos/", "o/z">>, 0)>>}

-----------------------------------------------------------------------------
(* github.FetchEvents *)

GithubIdle ==
    [pc |-> "idle", maxPages |-> GitHubPages, username |-> "", page |-> 0, ghEvents |-> <<>>, events |-> <<>>,
     repos |-> {}, err |-> "", primary |-> <<>>, mu |-> "",
     ciPc |-> "idle", ciTodo |-> {}, ciEvents |-> <<>>,
     prPc |-> "idle", prEvents |-> <<>>]

\* a call whose two sub-fetch goroutines are started before phase 1
GithubCalledEager ==
    [GithubIdle EXCEPT !.pc = "getUser", !.ciPc = "fetch", !.prPc = "fetch"]

GithubCalled == [GithubIdle EXCEPT !.pc = "getUser"]

\* requests issued per platform, primary-feed pages requested, phase-1 project
\* lookups issued and failed, the project ids phase 1 passed to resolveProject,
\* the kinds of request that have failed so far, and the platforms whose
\* primary feed has answered with an empty page
NetIdle == [github |-> 0, gitlab |-> 0, ghPages |-> 0, glPages |-> 0,
            resolve |-> 0, resolveFailed |-> 0, referenced |-> {}, failed |-> {},
            empty |-> {}]

Requested(n, platform, kind, ok) ==
    [n EXCEPT ![platform] = @ + 1,
              !.failed = IF ok THEN @ ELSE @ \cup {<<platform, kind>>}]

\* the request of one primary-feed page, answered by r
PageRequested(n, platform, counter, r) ==
    [Requested(n, platform, "page", PageOK(r)) EXCEPT
        ![counter] = @ + 1,
        !.empty = IF PageOK(r) /\ Len(r.body.v) = 0 THEN @ \cup {platform} ELSE @]

\* an error return that hands back the events collected so far
GithubFailKeepsEvents(g, err) == [g EXCEPT !.pc = "failed", !.err = err, !.ghEvents = <<>>]

\* return nil, err
GithubFail(g, err) == [g EXCEPT !.pc = "failed", !.err = err, !.events = <<>>,
                                !.ghEvents = <<>>]

\* an end of phase 1 that returns what phase 1 collected
GithubPhase2Skipped(g) ==
    [g EXCEPT !.pc = "returned", !.ghEvents = <<>>, !.primary = g.events,
              !.ciPc = "done", !.prPc = "done"]

\* the label phase2: wg.Add(2) and the two go statements
GithubPhase2(g) ==
    [g EXCEPT !.pc = "phase2", !.ghEvents = <<>>, !.primary = g.events,
              !.ciPc = "fetch", !.ciTodo = g.repos, !.prPc = "fetch"]

GhGetUser ==
    /\ github.pc = "getUser"
    /\ \E r \in Responses(GhUsers) :
         /\ net' = Requested(net, "github", "user", Succeeds(r))
         /\ github' = IF Succeeds(r)
                      THEN [github EXCEPT !.pc = "request", !.username = r.body.v.Login,
                                          !.page = 1]
                      ELSE GithubFail(github, "getting user")
    /\ UNCHANGED <<main, gitlab, stderr>>

\* the page loop without the break on an empty page
GhRequestPagePastEmpty(pages) ==
    /\ github.pc = "request"
    /\ \E r \in Responses(pages) :
         /\ net' = PageRequested(net, "github", "ghPages", r)
         /\ github' =
              IF r.transport THEN GithubFail(github, "transport")
              ELSE IF ~r.body.decodes THEN GithubFail(github, "decode")
              ELSE IF r.status # StatusOK THEN GithubFail(github, "unexpected status")
              ELSE [github EXCEPT !.pc = "loop", !.ghEvents = r.body.v]
    /\ UNCHANGED <<main, gitlab, stderr>>

\* one iteration of the page loop up to the range loop: request, decode, status, break
GhRequestPage(pages) ==
    /\ github.pc = "request"
    /\ \E r \in Responses(pages) :
         /\ net' = PageRequested(net, "github", "ghPages", r)
         /\ github' =
              IF r.transport THEN GithubFail(github, "transport")
              ELSE IF ~r.body.decodes THEN GithubFail(github, "decode")
              ELSE IF r.status # StatusOK THEN GithubFail(github, "unexpected status")
              ELSE IF Len(r.body.v) = 0 THEN GithubPhase2(github)
              ELSE [github EXCEPT !.pc = "loop", !.ghEvents = r.body.v]
    /\ UNCHANGED <<main, gitlab, stderr>>

GithubNeverStops(e) == FALSE

GithubStops(e) == Before(e.CreatedAt, since)
GithubSkips(e) == After(e.CreatedAt, until)

\* a range loop that gives up the page at a record parseEvent returns nothing for
RECURSIVE GithubRangeAbortsOnBad(_, _, _)
GithubRangeAbortsOnBad(page, i, acc) ==
    IF i > Len(page) THEN acc
    ELSE LET e == page[i]
         IN IF GithubStops(e) \/ GithubParseEvent(e) = <<>>
            THEN [acc EXCEPT !.stop = TRUE]
            ELSE IF GithubSkips(e) THEN GithubRangeAbortsOnBad(page, i + 1, acc)
            ELSE GithubRangeAbortsOnBad(page, i + 1,
                    [acc EXCEPT !.repos = @ \cup {e.Repo},
                                !.events = @ \o GithubParseEvent(e)])

\* a range loop that classifies a record only when its events are not yet held
RECURSIVE GithubRangeOnce(_, _, _)
GithubRangeOnce(page, i, acc) ==
    IF i > Len(page) THEN acc
    ELSE LET e == page[i]
             evs == GithubParseEvent(e)
         IN IF GithubStops(e) THEN [acc EXCEPT !.stop = TRUE]
            ELSE IF GithubSkips(e) THEN GithubRangeOnce(page, i + 1, acc)
            ELSE IF evs # <<>> /\ \A k \in 1..Len(evs) :
                                     \E j \in 1..Len(acc.events) : acc.events[j] = evs[k]
            THEN GithubRangeOnce(page, i + 1, [acc EXCEPT !.repos = @ \cup {e.Repo}])
            ELSE GithubRangeOnce(page, i + 1,
                    [acc EXCEPT !.repos = @ \cup {e.Repo},
                                !.events = @ \o evs])

\* a range loop that collects the repository only of a record that gives events
RECURSIVE GithubRangeReposOfEvents(_, _, _)
GithubRangeReposOfEvents(page, i, acc) ==
    IF i > Len(page) THEN acc
    ELSE LET e == page[i]
             evs == GithubParseEvent(e)
         IN IF GithubStops(e) THEN [acc EXCEPT !.stop = TRUE]
            ELSE IF GithubSkips(e) THEN GithubRangeReposOfEvents(page, i + 1, acc)
            ELSE GithubRangeReposOfEvents(page, i + 1,
                    [acc EXCEPT !.repos = IF evs = <<>> THEN @ ELSE @ \cup {e.Repo},
                                !.events = @ \o evs])

\* for _, e := range ghEvents, from record i on
RECURSIVE GithubRange(_, _, _)
GithubRange(page, i, acc) ==
    IF i > Len(page) THEN acc
    ELSE LET e == page[i]
         IN IF GithubStops(e) THEN [acc EXCEPT !.stop = TRUE]
            ELSE IF GithubSkips(e) THEN GithubRange(page, i + 1, acc)
            ELSE GithubRange(page, i + 1,
                    [acc EXCEPT !.repos = @ \cup {e.Repo},
                                !.events = @ \o GithubParseEvent(e)])

GhProcessPage ==
    /\ github.pc = "loop"
    /\ LET acc == GithubRange(github.ghEvents, 1,
                      [events |-> github.events, repos |-> github.repos, stop |-> FALSE])
           g == [github EXCEPT !.events = acc.events, !.repos = acc.repos,
                               !.ghEvents = <<>>]
       IN github' = IF acc.stop \/ g.page + 1 > g.maxPages
                    THEN GithubPhase2(g)
                    ELSE [g EXCEPT !.pc = "request", !.page = @ + 1]
    /\ UNCHANGED <<main, gitlab, net, stderr>>

GithubRunEvents(repoName, runs) ==
    LET kept == SelectSeq(runs, LAMBDA run : ~After(run.CreatedAt, until))
    IN [i \in 1..Len(kept) |->
          Event(CategoryPipeline, "failed",
                <<kept[i].Name, " on ", kept[i].HeadBranch>>, kept[i].HTMLURL,
                repoName, "github", kept[i].CreatedAt)]

\* fetchCIFailures: one iteration of the loop over repos
GhCIFetchRepo(runLists) ==
    /\ github.pc = "phase2" /\ github.ciPc = "fetch" /\ github.ciTodo # {}
    /\ \E repoName \in github.ciTodo, r \in Responses(runLists) :
         /\ net' = Requested(net, "github", "ci", PageOK(r))
         /\ github' =
              IF r.transport \/ ~r.body.decodes \/ r.status # StatusOK
              THEN [github EXCEPT !.ciTodo = @ \ {repoName}]
              ELSE [github EXCEPT !.ciTodo = @ \ {repoName},
                                  !.ciEvents = @ \o GithubRunEvents(repoName, r.body.v)]
    /\ UNCHANGED <<main, gitlab, stderr>>

\* the CI goroutine going on to its append without waiting for mu
GhCILockUnguarded ==
    /\ github.pc = "phase2" /\ github.ciPc = "fetch" /\ github.ciTodo = {}
    /\ github' = [github EXCEPT !.ciPc = "locked", !.mu = "ci"]
    /\ UNCHANGED <<main, gitlab, net, stderr>>

\* fetchCIFailures returns (events, nil); the goroutine takes mu
GhCILock ==
    /\ github.pc = "phase2" /\ github.ciPc = "fetch" /\ github.ciTodo = {}
    /\ github.mu = ""
    /\ github' = [github EXCEPT !.ciPc = "locked", !.mu = "ci"]
    /\ UNCHANGED <<main, gitlab, net, stderr>>

GhCIAppend ==
    /\ github.pc = "phase2" /\ github.ciPc = "locked"
    /\ github' = [github EXCEPT !.events = @ \o github.ciEvents, !.mu = "",
                                !.ciPc = "done"]
    /\ UNCHANGED <<main, gitlab, net, stderr>>

\* strings.SplitN(item.RepositoryURL, "/repos/", 2)
GithubRepoOf(url) ==
    IF \E k \in 1..Len(url) : url[k] = "/repos/"
    THEN LET k == CHOOSE k \in 1..Len(url) :
                    url[k] = "/repos/" /\ \A j \in 1..(k - 1) : url[j] # "/repos/"
         IN IF k < Len(url) THEN url[k + 1] ELSE ""
    ELSE ""

\* pending reviews kept only when created inside the window
GithubItemEventsWindowed(items) ==
    LET kept == SelectSeq(items, LAMBDA item : ~Before(item.CreatedAt, since)
                                                /\ ~After(item.CreatedAt, until))
    IN [i \in 1..Len(kept) |->
          Event(CategoryPendingReview, "awaiting your review",
                NumberTitle("#", kept[i].Number, kept[i].Title), kept[i].HTMLURL,
                GithubRepoOf(kept[i].RepositoryURL), "github", kept[i].CreatedAt)]

GithubItemEvents(items) ==
    [i \in 1..Len(items) |->
       Event(CategoryPendingReview, "awaiting your review",
             NumberTitle("#", items[i].Number, items[i].Title), items[i].HTMLURL,
             GithubRepoOf(items[i].RepositoryURL), "github", items[i].CreatedAt)]

GithubPendingWarning == <<"warning: ", "github pending reviews">>

\* an error branch that also empties the shared events
GithubPendingDropsEvents(g) == [g EXCEPT !.prPc = "done", !.events = <<>>]

\* the goroutine's error branch: the warning is printed and the goroutine returns
GithubPendingError(g) == [g EXCEPT !.prPc = "done"]

\* fetchPendingReviews and the error branch of its goroutine
GhPendingFetch(itemLists) ==
    /\ github.pc = "phase2" /\ github.prPc = "fetch"
    /\ \E r \in Responses(itemLists) :
         /\ net' = Requested(net, "github", "pending", Succeeds(r))
         /\ IF Succeeds(r)
            THEN /\ github' = [github EXCEPT !.prPc = "fetched",
                                             !.prEvents = GithubItemEvents(r.body.v)]
                 /\ UNCHANGED stderr
            ELSE /\ github' = GithubPendingError(github)
                 /\ stderr' = Append(stderr, GithubPendingWarning)
    /\ UNCHANGED <<main, gitlab>>

GhPendingLock ==
    /\ github.pc = "phase2" /\ github.prPc = "fetched"
    /\ github.mu = ""
    /\ github' = [github EXCEPT !.prPc = "locked", !.mu = "pr"]
    /\ UNCHANGED <<main, gitlab, net, stderr>>

GhPendingAppend ==
    /\ github.pc = "phase2" /\ github.prPc = "locked"
    /\ github' = [github EXCEPT !.events = @ \o github.prEvents, !.mu = "",
                                !.prPc = "done"]
    /\ UNCHANGED <<main, gitlab, net, stderr>>

\* wg.Wait(); return events, nil
\* a return that does not wait for the two goroutines
GhReturnUnjoined ==
    /\ github.pc = "phase2"
    /\ github' = [github EXCEPT !.pc = "returned"]
    /\ UNCHANGED <<main, gitlab, net, stderr>>

GhReturn ==
    /\ github.pc = "phase2" /\ github.ciPc = "done" /\ github.prPc = "done"
    /\ github' = [github EXCEPT !.pc = "returned"]
    /\ UNCHANGED <<main, gitlab, net, stderr>>

GithubNext(pages, runLists, itemLists) ==
    \/ GhGetUser
    \/ GhRequestPage(pages)
    \/ GhProcessPage
    \/ GhCIFetchRepo(runLists)
    \/ GhCILock
    \/ GhCIAppend
    \/ GhPendingFetch(itemLists)
    \/ GhPendingLock
    \/ GhPendingAppend
    \/ GhReturn

-----------------------------------------------------------------------------
(* GitLab raw records *)

NoPushData == [present |-> FALSE, CommitCount |-> 0, CommitTitle |-> "", Ref |-> ""]
PushData(n, title, ref) ==
    [present |-> TRUE, CommitCount |-> n, CommitTitle |-> title, Ref |-> ref]
NoNote == [present |-> FALSE, Body |-> "", NoteableType |-> ""]
Note(noteableType) == [present |-> TRUE, Body |-> "lgtm", NoteableType |-> noteableType]

GlRaw(action, targetType, title, iid, createdAt, pushData, note, projectID) ==
    [ActionName |-> action, TargetType |-> targetType, TargetTitle |-> title,
     TargetIID |-> iid, CreatedAt |-> createdAt, PushData |-> pushData,
     Note |-> note, ProjectID |-> projectID]

\* a parseEvent that looks at the target type before the push data
GitlabParseEventTargetFirst(e, proj) ==
    LET repoName == proj.PathWithNamespace
        one(cat, action, title, url) ==
            <<Event(cat, action, title, url, repoName, "gitlab", e.CreatedAt)>>
    IN CASE e.TargetType = "MergeRequest" ->
              one(IF e.ActionName = "approved" THEN CategoryReview ELSE CategoryPR,
                  e.ActionName, NumberTitle("!", e.TargetIID, e.TargetTitle),
                  <<proj.WebURL, "/-/merge_requests/", ToString(e.TargetIID)>>)
         [] e.TargetType = "Issue" ->
              one(CategoryIssue, e.ActionName,
                  NumberTitle("#", e.TargetIID, e.TargetTitle),
                  <<proj.WebURL, "/-/issues/", ToString(e.TargetIID)>>)
         [] e.TargetType \notin {"MergeRequest", "Issue"} /\ e.PushData.present ->
              one(CategoryCommit, "pushed",
                  IF e.PushData.CommitTitle = ""
                  THEN <<ToString(e.PushData.CommitCount), " commit(s) to ", e.PushData.Ref>>
                  ELSE <<e.PushData.CommitTitle>>,
                  <<>>)
         [] e.TargetType \notin {"MergeRequest", "Issue"} /\ ~e.PushData.present
               /\ e.Note.present ->
              one(IF e.Note.NoteableType = "MergeRequest"
                  THEN CategoryReviewComment ELSE CategoryComment,
                  "commented", <<e.TargetTitle>>, <<>>)
         [] OTHER -> <<>>

GitlabParseEvent(e, proj) ==
    LET repoName == proj.PathWithNamespace
        one(cat, action, title, url) ==
            <<Event(cat, action, title, url, repoName, "gitlab", e.CreatedAt)>>
    IN CASE e.PushData.present ->
              one(CategoryCommit, "pushed",
                  IF e.PushData.CommitTitle = ""
                  THEN <<ToString(e.PushData.CommitCount), " commit(s) to ", e.PushData.Ref>>
                  ELSE <<e.PushData.CommitTitle>>,
                  <<>>)
         [] ~e.PushData.present /\ e.TargetType = "MergeRequest" ->
              one(IF e.ActionName = "approved" THEN CategoryReview ELSE CategoryPR,
                  e.ActionName, NumberTitle("!", e.TargetIID, e.TargetTitle),
                  <<proj.WebURL, "/-/merge_requests/", ToString(e.TargetIID)>>)
         [] ~e.PushData.present /\ e.TargetType = "Issue" ->
              one(CategoryIssue, e.ActionName,
                  NumberTitle("#", e.TargetIID, e.TargetTitle),
                  <<proj.WebURL, "/-/issues/", ToString(e.TargetIID)>>)
         [] ~e.PushData.present /\ e.TargetType \notin {"MergeRequest", "Issue"}
               /\ e.Note.present ->
              one(IF e.Note.NoteableType = "MergeRequest"
                  THEN CategoryReviewComment ELSE CategoryComment,
                  "commented", <<e.TargetTitle>>, <<>>)
         [] OTHER -> <<>>

-----------------------------------------------------------------------------
(* GitLab: what the server may answer *)

GlUsers == {[ID |-> 42]}

Project(pid) ==
    [PathWithNamespace |-> IF pid = 1 THEN "g/one" ELSE IF pid = 2 THEN "g/two" ELSE "g/other",
     WebURL |-> IF pid = 1 THEN "gl/one" ELSE IF pid = 2 THEN "gl/two" ELSE "gl/other"]

GlPast == GlRaw("opened", "MergeRequest", "old", 1, 0, NoPushData, NoNote, 1)
GlPush == GlRaw("pushed to", "", "", 0, since, PushData(2, "", "main"), NoNote, 1)
GlApproved == GlRaw("approved", "MergeRequest", "fix", 5, until, NoPushData, NoNote, 2)
GlJoined == GlRaw("joined", "", "", 0, until, NoPushData, NoNote, 1)
GlFuture == GlRaw("commented on", "Note", "new", 6, MaxTime, NoPushData,
                  Note("MergeRequest"), 2)

GlRecords == {GlPast, GlPush, GlFuture}

\* the pages the server may answer with, to the adapter alone and under run
GlPages == SeqsUpTo(GlRecords, PageLen)
GlPagesRun == {<<>>, <<GlApproved>>}

Pipeline(id, userID, updatedAt) ==
    [ID |-> id, Ref |-> "main", WebURL |-> <<"pipeline-url">>, UpdatedAt |-> updatedAt,
     UserID |-> userID]

GlPipelineLists ==
    {<<>>, <<Pipeline(12, 77, since), Pipeline(13, 42, MaxTime)>>}
GlPipelineListsRun == {<<Pipeline(11, 42, until)>>}

MergeRequest(iid, projectID, createdAt) ==
    [IID |-> iid, Title |-> "review me", WebURL |-> <<"mr-url">>,
     ProjectID |-> projectID, CreatedAt |-> createdAt]

GlMRLists ==
    {<<>>, <<MergeRequest(22, 3, MaxTime), MergeRequest(21, 1, 0)>>}
GlMRListsRun == {<<MergeRequest(21, 2, 0)>>}

-----------------------------------------------------------------------------
(* gitlab.FetchEvents *)

EmptyMap == <<>>
\* a store that keeps only the newest entry
MapPutEvicting(m, k, v) == [x \in {k} |-> v]

MapPut(m, k, v) == [x \in DOMAIN m \cup {k} |-> IF x = k THEN v ELSE m[x]]

NoProject == [PathWithNamespace |-> "", WebURL |-> ""]

GitlabIdle ==
    [pc |-> "idle", maxPages |-> GitLabPages, userID |-> 0, page |-> 0, glEvents |-> <<>>, idx |-> 0,
     events |-> <<>>, projectCache |-> EmptyMap, projectIDs |-> {}, err |-> "",
     primary |-> <<>>, cacheSnapshot |-> EmptyMap, mu |-> "",
     ciPc |-> "idle", ciTodo |-> {}, ciEvents |-> <<>>,
     prPc |-> "idle", mrs |-> <<>>, prIdx |-> 0, localCache |-> EmptyMap,
     prEvents |-> <<>>]

GitlabCalled == [GitlabIdle EXCEPT !.pc = "getUser"]

\* return nil, err
GitlabFail(g, err) == [g EXCEPT !.pc = "failed", !.err = err, !.events = <<>>,
                                !.glEvents = <<>>, !.idx = 0]

\* a phase 2 started without the copy of the cache
GitlabPhase2Unsnapshotted(g) ==
    [g EXCEPT !.pc = "phase2", !.glEvents = <<>>, !.idx = 0, !.primary = g.events,
              !.ciPc = "fetch", !.ciTodo = g.projectIDs, !.prPc = "fetch"]

\* the cache snapshot, wg.Add(2) and the two go statements
GitlabPhase2(g) ==
    [g EXCEPT !.pc = "phase2", !.glEvents = <<>>, !.idx = 0, !.primary = g.events,
              !.cacheSnapshot = g.projectCache,
              !.ciPc = "fetch", !.ciTodo = g.projectIDs, !.prPc = "fetch"]

\* resolveProject remembering a failed lookup
GitlabResolveNegative(cache, projectID, r) ==
    IF projectID \in DOMAIN cache
    THEN [ok |-> cache[projectID] # NoProject, proj |-> cache[projectID],
          cache |-> cache, requested |-> FALSE]
    ELSE IF Succeeds(r)
    THEN [ok |-> TRUE, proj |-> r.body.v, cache |-> MapPut(cache, projectID, r.body.v),
          requested |-> TRUE]
    ELSE [ok |-> FALSE, proj |-> NoProject, cache |-> MapPut(cache, projectID, NoProject),
          requested |-> TRUE]

\* resolveProject without the store into cache
GitlabResolveUncached(cache, projectID, r) ==
    IF projectID \in DOMAIN cache
    THEN [ok |-> TRUE, proj |-> cache[projectID], cache |-> cache, requested |-> FALSE]
    ELSE IF Succeeds(r)
    THEN [ok |-> TRUE, proj |-> r.body.v, cache |-> cache, requested |-> TRUE]
    ELSE [ok |-> FALSE, proj |-> NoProject, cache |-> cache, requested |-> TRUE]

\* resolveProject(ctx, baseURL, token, projectID, cache), given the response r that
\* a lookup request gets; requested tells whether the request was issued
GitlabResolveProject(cache, projectID, r) ==
    IF projectID \in DOMAIN cache
    THEN [ok |-> TRUE, proj |-> cache[projectID], cache |-> cache, requested |-> FALSE]
    ELSE IF Succeeds(r)
    THEN [ok |-> TRUE, proj |-> r.body.v, cache |-> MapPut(cache, projectID, r.body.v),
          requested |-> TRUE]
    ELSE [ok |-> FALSE, proj |-> NoProject, cache |-> cache, requested |-> TRUE]

\* the responses a lookup of projectID through cache may meet: none on a hit
ProjectResponses(cache, projectID) ==
    IF projectID \in DOMAIN cache
    THEN {[transport |-> FALSE, status |-> "", body |-> Undecodable]}
    ELSE Responses({Project(projectID)})

GlGetUser ==
    /\ gitlab.pc = "getUser"
    /\ \E r \in Responses(GlUsers) :
         /\ net' = Requested(net, "gitlab", "user", Succeeds(r))
         /\ gitlab' = IF Succeeds(r)
                      THEN [gitlab EXCEPT !.pc = "request", !.userID = r.body.v.ID,
                                          !.page = 1]
                      ELSE GitlabFail(gitlab, "getting user")
    /\ UNCHANGED <<main, github, stderr>>

\* one iteration of the page loop up to the range loop: request, decode, status, break
GlRequestPage(pages) ==
    /\ gitlab.pc = "request"
    /\ \E r \in Responses(pages) :
         /\ net' = PageRequested(net, "gitlab", "glPages", r)
         /\ gitlab' =
              IF r.transport THEN GitlabFail(gitlab, "transport")
              ELSE IF ~r.body.decodes THEN GitlabFail(gitlab, "decode")
              ELSE IF r.status # StatusOK THEN GitlabFail(gitlab, "unexpected status")
              ELSE IF Len(r.body.v) = 0 THEN GitlabPhase2(gitlab)
              ELSE [gitlab EXCEPT !.pc = "loop", !.glEvents = r.body.v, !.idx = 1]
    /\ UNCHANGED <<main, github, stderr>>

GitlabSkips(e) == Before(e.CreatedAt, since)

\* the end of one pass of the range loop: next record, next page, or phase 2
GitlabAdvance(g) ==
    IF g.idx < Len(g.glEvents) THEN [g EXCEPT !.idx = @ + 1]
    ELSE IF g.page + 1 > g.maxPages THEN GitlabPhase2(g)
    ELSE [g EXCEPT !.pc = "request", !.page = @ + 1, !.glEvents = <<>>, !.idx = 0]

GitlabStopsOnPast(g) == GitlabPhase2(g)

\* what follows a record older than since: continue
GitlabOnPast(g) == GitlabAdvance(g)

GitlabFailsUnresolved(g) == GitlabFail(g, "resolving project")

\* what follows a record whose project cannot be resolved: continue
GitlabOnUnresolved(g) == GitlabAdvance(g)

\* one pass of for _, e := range glEvents
GlProcessRecord ==
    /\ gitlab.pc = "loop"
    /\ LET e == gitlab.glEvents[gitlab.idx]
       IN IF GitlabSkips(e)
          THEN /\ gitlab' = GitlabOnPast(gitlab)
               /\ UNCHANGED net
          ELSE \E r \in ProjectResponses(gitlab.projectCache, e.ProjectID) :
                 LET res == GitlabResolveProject(gitlab.projectCache, e.ProjectID, r)
                 IN /\ net' = IF res.requested
                              THEN [Requested(net, "gitlab", "project", res.ok) EXCEPT
                                      !.resolve = @ + 1,
                                      !.resolveFailed = IF res.ok THEN @ ELSE @ + 1,
                                      !.referenced = @ \cup {e.ProjectID}]
                              ELSE [net EXCEPT !.referenced = @ \cup {e.ProjectID}]
                    /\ gitlab' =
                         IF ~res.ok
                         THEN GitlabOnUnresolved([gitlab EXCEPT !.projectCache = res.cache])
                         ELSE GitlabAdvance(
                                [gitlab EXCEPT !.projectCache = res.cache,
                                               !.projectIDs = @ \cup {e.ProjectID},
                                               !.events = @ \o GitlabParseEvent(e, res.proj)])
    /\ UNCHANGED <<main, github, stderr>>

GitlabPipelineEvents(proj, userID, pipelines) ==
    LET kept == SelectSeq(pipelines, LAMBDA p : p.UserID = userID)
    IN [i \in 1..Len(kept) |->
          Event(CategoryPipeline, "failed",
                <<"pipeline #", ToString(kept[i].ID), " on ", kept[i].Ref>>,
                kept[i].WebURL, proj.PathWithNamespace, "gitlab", kept[i].UpdatedAt)]

\* fetchCIFailures: one iteration of the loop over projectIDs
GlCIFetchProject(pipelineLists) ==
    /\ gitlab.pc = "phase2" /\ gitlab.ciPc = "fetch" /\ gitlab.ciTodo # {}
    /\ \E pid \in gitlab.ciTodo :
         IF pid \notin DOMAIN gitlab.cacheSnapshot
         THEN /\ gitlab' = [gitlab EXCEPT !.ciTodo = @ \ {pid}]
              /\ UNCHANGED net
         ELSE \E r \in Responses(pipelineLists) :
                /\ net' = Requested(net, "gitlab", "ci", PageOK(r))
                /\ gitlab' =
                     IF r.transport \/ ~r.body.decodes \/ r.status # StatusOK
                     THEN [gitlab EXCEPT !.ciTodo = @ \ {pid}]
                     ELSE [gitlab EXCEPT
                             !.ciTodo = @ \ {pid},
                             !.ciEvents = @ \o GitlabPipelineEvents(
                                 gitlab.cacheSnapshot[pid], gitlab.userID, r.body.v)]
    /\ UNCHANGED <<main, github, stderr>>

GlCILock ==
    /\ gitlab.pc = "phase2" /\ gitlab.ciPc = "fetch" /\ gitlab.ciTodo = {}
    /\ gitlab.mu = ""
    /\ gitlab' = [gitlab EXCEPT !.ciPc = "locked", !.mu = "ci"]
    /\ UNCHANGED <<main, github, net, stderr>>

GlCIAppend ==
    /\ gitlab.pc = "phase2" /\ gitlab.ciPc = "locked"
    /\ gitlab' = [gitlab EXCEPT !.events = @ \o gitlab.ciEvents, !.mu = "",
                                !.ciPc = "done"]
    /\ UNCHANGED <<main, github, net, stderr>>

GitlabPendingWarning == <<"warning: ", "gitlab pending reviews">>

\* the goroutine's error branch: the warning is printed and the goroutine returns
GitlabPendingError(g) == [g EXCEPT !.prPc = "done"]

\* the end of one pass of the loop over mrs
GitlabPendingAdvance(g) ==
    IF g.prIdx < Len(g.mrs) THEN [g EXCEPT !.prIdx = @ + 1]
    ELSE [g EXCEPT !.prPc = "fetched", !.prIdx = 0]

\* fetchPendingReviews up to the loop over mrs, and the error branch of its goroutine
GlPendingFetch(mrLists) ==
    /\ gitlab.pc = "phase2" /\ gitlab.prPc = "fetch"
    /\ \E r \in Responses(mrLists) :
         /\ net' = Requested(net, "gitlab", "pending", Succeeds(r))
         /\ IF Succeeds(r)
            THEN /\ gitlab' =
                      LET g == [gitlab EXCEPT !.mrs = r.body.v,
                                              !.localCache = gitlab.cacheSnapshot]
                      IN IF Len(r.body.v) = 0 THEN [g EXCEPT !.prPc = "fetched"]
                         ELSE [g EXCEPT !.prPc = "loop", !.prIdx = 1]
                 /\ UNCHANGED stderr
            ELSE /\ gitlab' = GitlabPendingError(gitlab)
                 /\ stderr' = Append(stderr, GitlabPendingWarning)
    /\ UNCHANGED <<main, github>>

\* a pending-review event built without its Source
GitlabPendingEventUnsourced(mr, proj) ==
    Event(CategoryPendingReview, "awaiting your review",
          NumberTitle("!", mr.IID, mr.Title), mr.WebURL, proj.PathWithNamespace,
          "", mr.CreatedAt)

GitlabPendingEvent(mr, proj) ==
    Event(CategoryPendingReview, "awaiting your review",
          NumberTitle("!", mr.IID, mr.Title), mr.WebURL, proj.PathWithNamespace,
          "gitlab", mr.CreatedAt)

GitlabPendingShared == "cacheSnapshot"

\* which of the goroutine's maps resolveProject is given in fetchPendingReviews
GitlabPendingCache == "localCache"

\* fetchPendingReviews: one pass of for _, mr := range mrs
GlPendingResolve ==
    /\ gitlab.pc = "phase2" /\ gitlab.prPc = "loop"
    /\ LET mr == gitlab.mrs[gitlab.prIdx]
           cache == IF GitlabPendingCache = "localCache"
                    THEN gitlab.localCache ELSE gitlab.cacheSnapshot
       IN \E r \in ProjectResponses(cache, mr.ProjectID) :
            LET res == GitlabResolveProject(cache, mr.ProjectID, r)
                g == IF GitlabPendingCache = "localCache"
                     THEN [gitlab EXCEPT !.localCache = res.cache]
                     ELSE [gitlab EXCEPT !.cacheSnapshot = res.cache]
            IN /\ net' = IF res.requested
                         THEN Requested(net, "gitlab", "pending project", res.ok)
                         ELSE net
               /\ gitlab' =
                    IF ~res.ok THEN GitlabPendingAdvance(g)
                    ELSE GitlabPendingAdvance(
                           [g EXCEPT !.prEvents =
                                Append(@, GitlabPendingEvent(mr, res.proj))])
    /\ UNCHANGED <<main, github, stderr>>

GlPendingLock ==
    /\ gitlab.pc = "phase2" /\ gitlab.prPc = "fetched"
    /\ gitlab.mu = ""
    /\ gitlab' = [gitlab EXCEPT !.prPc = "locked", !.mu = "pr"]
    /\ UNCHANGED <<main, github, net, stderr>>

GlPendingAppend ==
    /\ gitlab.pc = "phase2" /\ gitlab.prPc = "locked"
    /\ gitlab' = [gitlab EXCEPT !.events = @ \o gitlab.prEvents, !.mu = "",
                                !.prPc = "done"]
    /\ UNCHANGED <<main, github, net, stderr>>

\* wg.Wait(); return events, nil
GlReturn ==
    /\ gitlab.pc = "phase2" /\ gitlab.ciPc = "done" /\ gitlab.prPc = "done"
    /\ gitlab' = [gitlab EXCEPT !.pc = "returned"]
    /\ UNCHANGED <<main, github, net, stderr>>

GitlabNext(pages, pipelineLists, mrLists) ==
    \/ GlGetUser
    \/ GlRequestPage(pages)
    \/ GlProcessRecord
    \/ GlCIFetchProject(pipelineLists)
    \/ GlCILock
    \/ GlCIAppend
    \/ GlPendingFetch(mrLists)
    \/ GlPendingResolve
    \/ GlPendingLock
    \/ GlPendingAppend
    \/ GlReturn

-----------------------------------------------------------------------------
(* cmd.run *)

Tokens == {"", "token"}

MainNone ==
    [pc |-> "none", githubToken |-> "", gitlabToken |-> "", allEvents |-> <<>>,
     errs |-> <<>>, mu |-> "", githubTask |-> "none", gitlabTask |-> "none",
     err |-> "", output |-> <<>>]

TokenError == "at least one of GITHUB_TOKEN or GITLAB_TOKEN must be set"

GithubAlwaysConfigured(m) == TRUE

\* if githubToken != "", if gitlabToken != ""
GithubConfigured(m) == m.githubToken # ""
GitlabConfigured(m) == m.gitlabToken # ""

RunResultFailsOnErrs(errs) == IF errs = <<>> THEN "" ELSE "adapters failed"

\* what run returns once the goroutines are joined: nil, whatever errs holds
RunResult(errs) == ""

\* run from the token check to wg.Wait(): the precondition and the go statements
RunStart ==
    /\ main.pc = "start"
    /\ IF main.githubToken = "" /\ main.gitlabToken = ""
       THEN /\ main' = [main EXCEPT !.pc = "returned", !.err = TokenError]
            /\ UNCHANGED <<github, gitlab>>
       ELSE /\ main' = [main EXCEPT
                          !.pc = "wait",
                          !.githubTask = IF GithubConfigured(main) THEN "fetch" ELSE "none",
                          !.gitlabTask = IF GitlabConfigured(main) THEN "fetch" ELSE "none"]
            /\ github' = IF GithubConfigured(main)
                         THEN [GithubCalled EXCEPT !.maxPages = github.maxPages]
                         ELSE github
            /\ gitlab' = IF GitlabConfigured(main)
                         THEN [GitlabCalled EXCEPT !.maxPages = gitlab.maxPages]
                         ELSE gitlab
    /\ UNCHANGED <<net, stderr>>

\* the github goroutine: FetchEvents has returned; mu.Lock()
GithubTaskLock ==
    /\ main.pc = "wait" /\ main.githubTask = "fetch"
    /\ github.pc \in {"returned", "failed"}
    /\ main.mu = ""
    /\ main' = [main EXCEPT !.githubTask = "locked", !.mu = "github"]
    /\ UNCHANGED <<github, gitlab, net, stderr>>

\* the github goroutine: errs or allEvents, the deferred mu.Unlock() and wg.Done()
GithubTaskMerge ==
    /\ main.githubTask = "locked"
    /\ main' = IF github.pc = "failed"
               THEN [main EXCEPT !.errs = Append(@, <<"github", github.err>>),
                                 !.mu = "", !.githubTask = "done"]
               ELSE [main EXCEPT !.allEvents = @ \o github.events,
                                 !.mu = "", !.githubTask = "done"]
    /\ UNCHANGED <<github, gitlab, net, stderr>>

\* the gitlab goroutine: FetchEvents has returned; mu.Lock()
GitlabTaskLock ==
    /\ main.pc = "wait" /\ main.gitlabTask = "fetch"
    /\ gitlab.pc \in {"returned", "failed"}
    /\ main.mu = ""
    /\ main' = [main EXCEPT !.gitlabTask = "locked", !.mu = "gitlab"]
    /\ UNCHANGED <<github, gitlab, net, stderr>>

\* the gitlab goroutine: errs or allEvents, the deferred mu.Unlock() and wg.Done()
GitlabTaskMerge ==
    /\ main.gitlabTask = "locked"
    /\ main' = IF gitlab.pc = "failed"
               THEN [main EXCEPT !.errs = Append(@, <<"gitlab", gitlab.err>>),
                                 !.mu = "", !.gitlabTask = "done"]
               ELSE [main EXCEPT !.allEvents = @ \o gitlab.events,
                                 !.mu = "", !.gitlabTask = "done"]
    /\ UNCHANGED <<github, gitlab, net, stderr>>

RunWarnsOnce(errs) ==
    IF errs = <<>> THEN <<>> ELSE << <<"warning: ", errs[1][1], errs[1][2]>> >>

\* fmt.Fprintf(os.Stderr, "warning: %v\n", err) for each of errs
RunWarnings(errs) == [i \in 1..Len(errs) |-> <<"warning: ", errs[i][1], errs[i][2]>>]

\* run after wg.Wait(): the warnings, report.Generate, return nil
RunReport ==
    /\ main.pc = "wait"
    /\ main.githubTask \in {"none", "done"} /\ main.gitlabTask \in {"none", "done"}
    /\ stderr' = stderr \o RunWarnings(main.errs)
    /\ main' = [main EXCEPT !.pc = "returned", !.err = RunResult(main.errs),
                            !.output = <<[events |-> main.allEvents]>>]
    /\ UNCHANGED <<github, gitlab, net>>

-----------------------------------------------------------------------------
(* Specifications *)

\* run, with the two adapters as its goroutines
Init ==
    /\ main \in {[MainNone EXCEPT !.pc = "start", !.githubToken = gh, !.gitlabToken = gl] :
                    gh \in Tokens, gl \in Tokens}
    /\ github = GithubIdle
    /\ gitlab = GitlabIdle
    /\ net = NetIdle
    /\ stderr = <<>>

Next ==
    \/ RunStart
    \/ GithubTaskLock
    \/ GithubTaskMerge
    \/ GitlabTaskLock
    \/ GitlabTaskMerge
    \/ RunReport
    \/ GithubNext(GhPagesRun, GhRunListsRun, GhItemListsRun)
    \/ GitlabNext(GlPagesRun, GlPipelineListsRun, GlMRListsRun)

Spec == Init /\ [][Next]_vars

\* github.FetchEvents called on its own
InitGitHub ==
    /\ main = MainNone
    /\ github = GithubCalled
    /\ gitlab = GitlabIdle
    /\ net = NetIdle
    /\ stderr = <<>>

NextGitHub == GithubNext(GhPages, GhRunLists, GhItemLists)

SpecGitHub == InitGitHub /\ [][NextGitHub]_vars

\* gitlab.FetchEvents called on its own
InitGitLab ==
    /\ main = MainNone
    /\ github = GithubIdle
    /\ gitlab = GitlabCalled
    /\ net = NetIdle
    /\ stderr = <<>>

NextGitLab == GitlabNext(GlPages, GlPipelineLists, GlMRLists)

SpecGitLab == InitGitLab /\ [][NextGitLab]_vars

\* run with one token and the page loops at the limits of the source; the
\* pages hold one record that is in the window and gives no event, so that
\* only the page loops make the runs long. Every goroutine that can take a
\* step eventually takes one, and every request is answered.
GhPagesPaging == {<<>>, <<GhWatch>>}
GlPagesPaging == {<<>>, <<GlJoined>>}

InitPaging ==
    /\ main \in {[MainNone EXCEPT !.pc = "start", !.githubToken = "token"],
                  [MainNone EXCEPT !.pc = "start", !.gitlabToken = "token"]}
    /\ github = [GithubIdle EXCEPT !.maxPages = GithubMaxPages]
    /\ gitlab = [GitlabIdle EXCEPT !.maxPages = GitlabMaxPages]
    /\ net = NetIdle
    /\ stderr = <<>>

NextPaging ==
    \/ RunStart
    \/ GithubTaskLock
    \/ GithubTaskMerge
    \/ GitlabTaskLock
    \/ GitlabTaskMerge
    \/ RunReport
    \/ GithubNext(GhPagesPaging, GhRunListsRun, GhItemListsRun)
    \/ GitlabNext(GlPagesPaging, GlPipelineListsRun, GlMRListsRun)

SpecPaging == InitPaging /\ [][NextPaging]_vars /\ WF_vars(NextPaging)

\* github.FetchEvents called on its own, on pages that go through the record
\* types of parseEvent: pushes of 0, 1 and 3 commits, pull requests of every
\* action and merged flag, one record of each other type, records of each type
\* whose payload does not unmarshal, and a record of a type parseEvent ignores
GhPushes ==
    {GhRaw("PushEvent", "o/a", PushPayload(messages), since) :
        messages \in {<<>>, << <<"a">> >>,
                      << <<"F", "\n", "D">>, <<"G">>, <<"\n", "x">> >>}}
GhPulls ==
    {GhRaw("PullRequestEvent", "o/a", PRPayload(action, merged, 2, "fix"), until) :
        action \in {"opened", "closed"}, merged \in BOOLEAN}
GhReviews ==
    {GhRaw(type, "o/a", ReviewPayload("approved", 4, "r"), since) :
        type \in {"PullRequestReviewEvent", "PullRequestReviewCommentEvent"}}
GhIssues ==
    {GhRaw(type, "o/a", IssuePayload("opened", 3, "new"), since) :
        type \in {"IssuesEvent", "IssueCommentEvent"}}
GhBadPayloads ==
    {GhRaw(type, "o/a", NoPayload, since) :
        type \in {"PushEvent", "PullRequestEvent", "PullRequestReviewEvent",
                  "PullRequestReviewCommentEvent", "IssuesEvent", "IssueCommentEvent"}}
GhRecordsParse ==
    GhPushes \cup GhPulls \cup GhReviews \cup GhIssues \cup GhBadPayloads
      \cup {GhRaw("WatchEvent", "o/a", NoPayload, since)}

GhBadPush == GhRaw("PushEvent", "o/a", NoPayload, since)
GhClosedMerged == GhRaw("PullRequestEvent", "o/a", PRPayload("closed", TRUE, 2, "fix"), until)

GhPagesParse ==
    {<<>>, <<GhBadPush, GhClosedMerged>>, <<GhClosedMerged, GhBadPush>>}
      \cup {<<e>> : e \in GhRecordsParse}

\* GitLab records through the branches of parseEvent: a push with and without a
\* commit title, merge request actions, an issue action, notes on a merge
\* request and on something else, and a record parseEvent ignores
GlRecordsParse ==
    {GlPast, GlPush, GlApproved, GlJoined, GlFuture,
     GlRaw("pushed to", "", "", 0, since, PushData(1, "one", "main"), NoNote, 1),
     GlRaw("closed", "Issue", "bug", 9, until, NoPushData, NoNote, 2),
     GlRaw("commented on", "Note", "thread", 0, since, NoPushData, Note("Issue"), 1),
     GlRaw("commented on", "DiffNote", "diff", 0, since, NoPushData,
           Note("MergeRequest"), 1)}

GlIssueClosed == GlRaw("closed", "Issue", "bug", 9, until, NoPushData, NoNote, 2)

\* records more than one case of parseEvent would accept: push data with a merge
\* request target, a merge request and an issue carrying a note
GlRecordsOverlap ==
    {GlRaw("pushed to", "MergeRequest", "both", 4, since, PushData(1, "both", "main"), NoNote, 1),
     GlRaw("approved", "MergeRequest", "noted", 5, since, NoPushData, Note("MergeRequest"), 1),
     GlRaw("commented on", "MergeRequest", "noted", 5, since, NoPushData,
           Note("MergeRequest"), 1),
     GlRaw("commented on", "Issue", "noted", 9, until, NoPushData, Note("Issue"), 2)}

GlPagesParse ==
    {<<>>, <<GlJoined, GlApproved>>, <<GlApproved, GlJoined>>, <<GlPush>>,
     <<GlIssueClosed>>}
      \cup {<<e>> : e \in (GlRecordsParse \ {GlPast, GlFuture}) \cup GlRecordsOverlap}

\* either adapter called on its own
InitParse ==
    /\ main = MainNone
    /\ \/ github = GithubCalled /\ gitlab = GitlabIdle
       \/ github = GithubIdle /\ gitlab = GitlabCalled
    /\ net = NetIdle
    /\ stderr = <<>>

NextParse ==
    \/ GithubNext(GhPagesParse, GhRunListsRun, GhItemListsRun)
    \/ GitlabNext(GlPagesParse, GlPipelineListsRun, GlMRListsRun)

SpecParse == InitParse /\ [][NextParse]_vars

\* either adapter called alone, its reviewer query answered with requests
\* created before, inside and after the window, of repositories and projects
\* phase 1 touched (o/b, project 2) and did not touch
GhItemListsPending ==
    {<<>>,
     <<SearchIssue(7, <<"https://api.github.com", "/repos/", "o/z">>, 0),
       SearchIssue(8, <<"https://api.github.com", "/repos/", "o/b">>, until),
       SearchIssue(9, <<"https://api.github.com/x">>, MaxTime)>>}
GlMRListsPending ==
    {<<>>, <<MergeRequest(21, 1, 0), MergeRequest(22, 2, since),
             MergeRequest(23, 3, MaxTime)>>}

InitPending ==
    /\ main = MainNone
    /\ \/ github = GithubCalled /\ gitlab = GitlabIdle
       \/ github = GithubIdle /\ gitlab = GitlabCalled
    /\ net = NetIdle
    /\ stderr = <<>>

NextPending ==
    \/ GithubNext(GhPagesRun, GhRunListsRun, GhItemListsPending)
    \/ GitlabNext(GlPagesRun, GlPipelineListsRun, GlMRListsPending)

SpecPending == InitPending /\ [][NextPending]_vars

-----------------------------------------------------------------------------
(* Properties *)

BothConfigured == main.githubToken # "" /\ main.gitlabToken # ""

\* a line of stderr that run printed for a failed adapter
IsAdapterWarning(line) == line[2] \in {"github", "gitlab"}

GithubFailedGitlabSucceeded ==
    /\ main.pc = "returned" /\ BothConfigured
    /\ github.pc = "failed" /\ gitlab.pc = "returned"

\* C1 as stated: when both tokens are set, GitHub fails and GitLab succeeds, the
\* merged collection is GitLab's events, exactly one warning is on stderr, the
\* merged collection is not empty, and run returns nil.
C1_AsStated ==
    GithubFailedGitlabSucceeded =>
        /\ main.allEvents = gitlab.events
        /\ Len(stderr) = 1
        /\ main.allEvents # <<>>
        /\ main.err = ""

\* C1, amended: in such a run the merged collection (and what report.Generate is
\* given) is exactly the events GitLab returned, empty only when GitLab returned
\* none; run prints exactly one adapter warning, the one for github, after any
\* warning GitLab's own pending-review goroutine printed; run returns nil.
C1_PartialFailure ==
    GithubFailedGitlabSucceeded =>
        /\ main.allEvents = gitlab.events
        /\ main.output = <<[events |-> gitlab.events]>>
        /\ SelectSeq(stderr, IsAdapterWarning) = << <<"warning: ", "github", github.err>> >>
        /\ \A i \in 1..Len(stderr) :
             ~IsAdapterWarning(stderr[i]) => stderr[i] = GitlabPendingWarning
        /\ main.err = ""

C1_Witness ==
    /\ GithubFailedGitlabSucceeded
    /\ gitlab.events # <<>>
    /\ Len(stderr) = 1

\* the events of the primary feed an adapter holds: all of events until phase 2
\* starts, the prefix that phase 1 built from then on
GithubPrimary == IF github.pc \in {"request", "loop"} THEN github.events ELSE github.primary
GitlabPrimary == IF gitlab.pc \in {"request", "loop"} THEN gitlab.events ELSE gitlab.primary

\* C2: in both adapters no primary event an adapter holds or returns was created
\* after the window end, whatever pages the server returned.
C2_AfterWindowExcluded ==
    /\ \A i \in 1..Len(GithubPrimary) : ~After(GithubPrimary[i].CreatedAt, until)
    /\ \A i \in 1..Len(GitlabPrimary) : ~After(GitlabPrimary[i].CreatedAt, until)

GitlabPhase1Over == gitlab.pc \in {"phase2", "returned"}

\* C3 as stated: when phase 1 of the GitLab adapter is over, the number of
\* project-resolution requests it issued is the number of distinct project ids
\* its processed records referenced.
C3_AsStated ==
    GitlabPhase1Over => net.resolve = Cardinality(net.referenced)

\* C3, amended: throughout the GitLab adapter's phase 1 and after it, the cache
\* holds exactly the project ids that were resolved, and the requests issued are
\* one per distinct resolved id plus one per failed lookup (a failure is not
\* cached, so the next record of that project asks again); when no lookup
\* failed this is exactly one request per distinct referenced id.
C3_CacheCount ==
    gitlab.pc \in {"request", "loop", "phase2", "returned"} =>
        /\ DOMAIN gitlab.projectCache = gitlab.projectIDs
        /\ gitlab.projectIDs \subseteq net.referenced
        /\ net.resolve = Cardinality(gitlab.projectIDs) + net.resolveFailed
        /\ net.resolveFailed = 0 => net.resolve = Cardinality(net.referenced)

C3_Witness ==
    /\ gitlab.pc = "phase2"
    /\ Len(gitlab.primary) = 2
    /\ Cardinality(net.referenced) = 1
    /\ net.resolve = 1

\* the warning lines of the two CI goroutines, printed when fetchCIFailures
\* returns an error
GithubCIWarning == <<"warning: ", "github CI failures">>
GitlabCIWarning == <<"warning: ", "gitlab CI failures">>

Failed(platform, kind) == <<platform, kind>> \in net.failed

\* C4 as stated: once an adapter has returned, a failed CI request has left the
\* CI warning on stderr and a failed pending-review request the pending-review
\* warning, the adapter's error is nil, and its events are the phase-1 events
\* followed by those of the two sub-fetches in the order they finished.
C4_AsStated ==
    /\ github.pc = "returned" =>
         /\ Failed("github", "ci") => GithubCIWarning \in Range(stderr)
         /\ Failed("github", "pending") => GithubPendingWarning \in Range(stderr)
         /\ github.err = ""
         /\ github.events \in {github.primary \o github.ciEvents \o github.prEvents,
                               github.primary \o github.prEvents \o github.ciEvents}
    /\ gitlab.pc = "returned" =>
         /\ Failed("gitlab", "ci") => GitlabCIWarning \in Range(stderr)
         /\ Failed("gitlab", "pending") => GitlabPendingWarning \in Range(stderr)
         /\ gitlab.err = ""
         /\ gitlab.events \in {gitlab.primary \o gitlab.ciEvents \o gitlab.prEvents,
                               gitlab.primary \o gitlab.prEvents \o gitlab.ciEvents}

\* C4, amended: once an adapter has returned, its error is nil and its events are
\* the phase-1 events followed by the CI events and the pending-review events in
\* the order the two goroutines finished. The pending-review warning is on stderr
\* exactly when the pending-review request failed, and then the pending-review
\* events are empty. A failed CI request is never reported: no CI warning is ever
\* printed, and the one repository or project whose request failed contributes
\* no CI event.
C4_SubFetchFailure ==
    /\ GithubCIWarning \notin Range(stderr)
    /\ GitlabCIWarning \notin Range(stderr)
    /\ github.pc = "returned" =>
         /\ Failed("github", "pending") <=> GithubPendingWarning \in Range(stderr)
         /\ Failed("github", "pending") => github.prEvents = <<>>
         /\ github.err = ""
         /\ github.events \in {github.primary \o github.ciEvents \o github.prEvents,
                               github.primary \o github.prEvents \o github.ciEvents}
         /\ (Failed("github", "ci") /\ Cardinality(github.repos) = 1) =>
                github.ciEvents = <<>>
    /\ gitlab.pc = "returned" =>
         /\ Failed("gitlab", "pending") <=> GitlabPendingWarning \in Range(stderr)
         /\ Failed("gitlab", "pending") => gitlab.prEvents = <<>>
         /\ (Failed("gitlab", "ci") /\ Cardinality(gitlab.projectIDs) = 1) =>
                gitlab.ciEvents = <<>>
         /\ gitlab.err = ""
         /\ gitlab.events \in {gitlab.primary \o gitlab.ciEvents \o gitlab.prEvents,
                               gitlab.primary \o gitlab.prEvents \o gitlab.ciEvents}

C4_Witness ==
    /\ github.pc = "returned"
    /\ Failed("github", "pending")
    /\ github.primary # <<>> /\ github.ciEvents # <<>>
    /\ github.events = github.primary \o github.ciEvents

Phase1Failed(platform) == Failed(platform, "user") \/ Failed(platform, "page")
Phase2Requested(platform) ==
    \E kind \in {"ci", "pending", "pending project"} : Failed(platform, kind)

\* C5: in either adapter a failed identity request or primary-feed page request
\* makes FetchEvents return an error; an adapter that returned an error returns
\* no events, whatever earlier pages gave, has started neither sub-fetch, and
\* contributes nothing to the merged collection.
C5_HardFailure ==
    /\ Phase1Failed("github") => github.pc = "failed"
    /\ Phase1Failed("gitlab") => gitlab.pc = "failed"
    /\ github.pc = "failed" =>
         /\ github.err # "" /\ github.events = <<>>
         /\ github.ciPc = "idle" /\ github.prPc = "idle"
         /\ \A i \in 1..Len(main.allEvents) : main.allEvents[i].Source # "github"
    /\ gitlab.pc = "failed" =>
         /\ gitlab.err # "" /\ gitlab.events = <<>>
         /\ gitlab.ciPc = "idle" /\ gitlab.prPc = "idle"
         /\ \A i \in 1..Len(main.allEvents) : main.allEvents[i].Source # "gitlab"

C5_Witness ==
    /\ github.pc = "failed"
    /\ net.ghPages = 2
    /\ main.githubTask = "done"

\* C8: with neither token set run returns the precondition error having launched
\* no adapter task, issued no request and printed nothing; and in every run a
\* platform whose token is not set is never called and never sent a request.
C8_NoCredential ==
    /\ (main.githubToken = "" /\ main.gitlabToken = "") =>
         /\ net = NetIdle /\ stderr = <<>>
         /\ main.githubTask = "none" /\ main.gitlabTask = "none"
         /\ main.pc = "returned" => (main.err = TokenError /\ main.output = <<>>)
    /\ main.githubToken = "" =>
         /\ github = GithubIdle /\ net.github = 0 /\ net.ghPages = 0
         /\ main.githubTask = "none"
    /\ main.gitlabToken = "" =>
         /\ gitlab = GitlabIdle /\ net.gitlab = 0 /\ net.glPages = 0
         /\ main.gitlabTask = "none"

C8_Witness ==
    /\ main.pc = "returned"
    /\ main.githubToken = "" /\ main.gitlabToken = ""
    /\ main.err = TokenError

\* what each configured adapter gave run: its events, or nothing when it failed
GithubGave == IF github.pc = "returned" THEN github.events ELSE <<>>
GitlabGave == IF gitlab.pc = "returned" THEN gitlab.events ELSE <<>>

\* the warnings run owes: one per adapter that returned an error
AdapterWarningsDue ==
    (IF github.pc = "failed" THEN {<<"warning: ", "github", github.err>>} ELSE {})
      \cup (IF gitlab.pc = "failed" THEN {<<"warning: ", "gitlab", gitlab.err>>} ELSE {})

RunCompleted ==
    main.pc = "returned" /\ (main.githubToken # "" \/ main.gitlabToken # "")

AllConfiguredFailed ==
    /\ main.githubToken # "" => github.pc = "failed"
    /\ main.gitlabToken # "" => gitlab.pc = "failed"

\* C9 as stated: a run with at least one token returns nil; stderr holds exactly
\* as many warnings as adapters failed; the merged collection is the
\* concatenation of the successful adapters' events; when every configured
\* adapter failed it is empty and the report is still generated.
C9_AsStated ==
    RunCompleted =>
        /\ main.err = ""
        /\ Len(stderr) = Cardinality(AdapterWarningsDue)
        /\ main.allEvents \in {GithubGave \o GitlabGave, GitlabGave \o GithubGave}
        /\ AllConfiguredFailed =>
             (main.allEvents = <<>> /\ main.output = <<[events |-> <<>>]>>)

\* C9, amended: a run with at least one token returns nil; run itself prints
\* exactly one warning per failed adapter, naming it, after whatever
\* pending-review warnings the successful adapters logged on their own; the
\* merged collection is the concatenation of the successful adapters' events in
\* the order the adapters finished; the report is generated from it, and it is
\* empty when every configured adapter failed.
C9_AdapterFailures ==
    RunCompleted =>
        /\ main.err = ""
        /\ LET own == SelectSeq(stderr, IsAdapterWarning)
           IN /\ Len(own) = Cardinality(AdapterWarningsDue)
              /\ Range(own) = AdapterWarningsDue
        /\ \A i \in 1..Len(stderr) :
             ~IsAdapterWarning(stderr[i]) =>
                 stderr[i] \in {GithubPendingWarning, GitlabPendingWarning}
        /\ main.allEvents \in {GithubGave \o GitlabGave, GitlabGave \o GithubGave}
        /\ main.output = <<[events |-> main.allEvents]>>
        /\ AllConfiguredFailed => main.allEvents = <<>>

C9_Witness ==
    /\ RunCompleted /\ BothConfigured
    /\ github.pc = "failed" /\ gitlab.pc = "failed"
    /\ Len(stderr) = 2

\* the events the range loop of the GitHub adapter builds from records 1..n of
\* a page none of which is older than since
GithubKept(page, n) ==
    Concat([i \in 1..n |-> IF After(page[i].CreatedAt, until) THEN <<>>
                           ELSE GithubParseEvent(page[i])])

GithubFirstPast(page) ==
    CHOOSE k \in 1..Len(page) :
        /\ Before(page[k].CreatedAt, since)
        /\ \A j \in 1..(k - 1) : ~Before(page[j].CreatedAt, since)

\* C6: when the GitHub adapter processes a page holding a record older than
\* since, it goes to phase 2 at once with the events of the records before the
\* first such record only, whatever follows it on the page; and from phase 2 on
\* no primary-feed page is requested any more.
C6_StopOnPast ==
    [][/\ (/\ github.pc = "loop"
           /\ \E i \in 1..Len(github.ghEvents) :
                Before(github.ghEvents[i].CreatedAt, since)) =>
             /\ github'.pc = "phase2"
             /\ github'.events =
                  github.events \o
                    GithubKept(github.ghEvents, GithubFirstPast(github.ghEvents) - 1)
             /\ github'.primary = github'.events
       /\ github.pc \in {"phase2", "returned"} =>
             /\ net'.ghPages = net.ghPages
             /\ github'.primary = github.primary
             /\ github'.pc \in {"phase2", "returned"}]_vars

C6_Witness ==
    /\ github.pc = "loop" /\ github.page = 1
    /\ Len(github.ghEvents) = 2
    /\ Before(github.ghEvents[1].CreatedAt, since)
    /\ github.ghEvents[2].CreatedAt \in since..until
    /\ GithubParseEvent(github.ghEvents[2]) # <<>>

\* C7: when the GitLab adapter meets a record older than since, it adds no
\* event, issues no request and leaves the project cache alone, and goes on: to
\* the next record of the page, or after the last record to the request of the
\* next page (to phase 2 only when the page limit is reached).
C7_SkipOnPast ==
    [][(/\ gitlab.pc = "loop"
        /\ Before(gitlab.glEvents[gitlab.idx].CreatedAt, since)) =>
          /\ gitlab'.events = gitlab.events
          /\ net' = net
          /\ gitlab'.projectCache = gitlab.projectCache
          /\ gitlab'.projectIDs = gitlab.projectIDs
          /\ IF gitlab.idx < Len(gitlab.glEvents)
             THEN /\ gitlab'.pc = "loop"
                  /\ gitlab'.idx = gitlab.idx + 1
                  /\ gitlab'.glEvents = gitlab.glEvents
             ELSE IF gitlab.page < GitLabPages
             THEN gitlab'.pc = "request" /\ gitlab'.page = gitlab.page + 1
             ELSE gitlab'.pc = "phase2"]_vars

C7_Witness ==
    /\ gitlab.pc = "loop" /\ gitlab.idx = 2 /\ gitlab.page = 1
    /\ Before(gitlab.glEvents[1].CreatedAt, since)
    /\ ~Before(gitlab.glEvents[2].CreatedAt, since)
    /\ gitlab.events = <<>> /\ net.resolve = 0

\* C10: the phase-1 project cache changes only in a step of the phase-1 loop;
\* once phase 2 has started neither it nor the snapshot changes any more; the
\* local copy changes only in steps of the pending-review goroutine, which is
\* its only reader.
C10_CacheConfinement ==
    [][/\ gitlab.pc \in {"phase2", "returned"} =>
             /\ gitlab'.projectCache = gitlab.projectCache
             /\ gitlab'.cacheSnapshot = gitlab.cacheSnapshot
       /\ gitlab'.projectCache # gitlab.projectCache => gitlab.pc = "loop"
       /\ gitlab'.cacheSnapshot # gitlab.cacheSnapshot =>
             (gitlab.pc \in {"request", "loop"} /\ gitlab'.pc = "phase2")
       /\ gitlab'.localCache # gitlab.localCache =>
             /\ gitlab.pc = "phase2" /\ gitlab.prPc \in {"fetch", "loop"}
             /\ gitlab'.ciPc = gitlab.ciPc /\ gitlab'.ciEvents = gitlab.ciEvents]_vars

C10_Witness ==
    /\ gitlab.pc = "phase2" /\ gitlab.ciPc = "fetch" /\ gitlab.ciTodo # {}
    /\ gitlab.cacheSnapshot # EmptyMap
    /\ gitlab.localCache # gitlab.cacheSnapshot
    /\ gitlab.cacheSnapshot = gitlab.projectCache
    /\ DOMAIN gitlab.cacheSnapshot \subseteq DOMAIN gitlab.localCache

\* the holder of a mutex is exactly the goroutine between its Lock and Unlock
MutexHeld(mu, who, pc) == (mu = who) <=> (pc = "locked")

\* C11: each mutex is held by exactly the goroutine that is in its critical
\* section, so never by two; the events of an adapter change in phase 2 only by
\* the append of one whole sub-fetch result by the goroutine holding the
\* adapter's mutex, and the merged collection only by the append of one whole
\* adapter result by the task holding run's mutex; an adapter that returns has
\* its phase-1 events followed by both sub-fetch results, each once, and run
\* ends with the results of the successful adapters, each once.
C11_NoLostAppends ==
    [][/\ MutexHeld(github.mu, "ci", github.ciPc)
       /\ MutexHeld(github.mu, "pr", github.prPc)
       /\ MutexHeld(gitlab.mu, "ci", gitlab.ciPc)
       /\ MutexHeld(gitlab.mu, "pr", gitlab.prPc)
       /\ MutexHeld(main.mu, "github", main.githubTask)
       /\ MutexHeld(main.mu, "gitlab", main.gitlabTask)
       /\ (github.pc = "phase2" /\ github'.events # github.events) =>
             \/ github.mu = "ci" /\ github'.events = github.events \o github.ciEvents
             \/ github.mu = "pr" /\ github'.events = github.events \o github.prEvents
       /\ (gitlab.pc = "phase2" /\ gitlab'.events # gitlab.events) =>
             \/ gitlab.mu = "ci" /\ gitlab'.events = gitlab.events \o gitlab.ciEvents
             \/ gitlab.mu = "pr" /\ gitlab'.events = gitlab.events \o gitlab.prEvents
       /\ main'.allEvents # main.allEvents =>
             \/ main.mu = "github" /\ main'.allEvents = main.allEvents \o github.events
             \/ main.mu = "gitlab" /\ main'.allEvents = main.allEvents \o gitlab.events
       /\ github'.pc = "returned" =>
             github'.events \in
               {github'.primary \o github'.ciEvents \o github'.prEvents,
                github'.primary \o github'.prEvents \o github'.ciEvents}
       /\ gitlab'.pc = "returned" =>
             gitlab'.events \in
               {gitlab'.primary \o gitlab'.ciEvents \o gitlab'.prEvents,
                gitlab'.primary \o gitlab'.prEvents \o gitlab'.ciEvents}
       /\ main'.pc = "returned" =>
             LET gh == IF github'.pc = "returned" THEN github'.events ELSE <<>>
                 gl == IF gitlab'.pc = "returned" THEN gitlab'.events ELSE <<>>
             IN main'.allEvents \in {gh \o gl, gl \o gh}]_vars

C11_Witness ==
    /\ main.pc = "returned"
    /\ github.pc = "returned" /\ gitlab.pc = "returned"
    /\ github.primary # <<>> /\ github.ciEvents # <<>> /\ github.prEvents # <<>>
    /\ gitlab.primary # <<>> /\ gitlab.ciEvents # <<>> /\ gitlab.prEvents # <<>>
    /\ github.events = github.primary \o github.prEvents \o github.ciEvents
    /\ main.allEvents = gitlab.events \o github.events

-----------------------------------------------------------------------------
(* report: the order in which the merged events are rendered *)

categoryOrder ==
    <<CategoryPR, CategoryReview, CategoryReviewComment, CategoryIssue,
      CategoryComment, CategoryCommit, CategoryPipeline, CategoryPendingReview>>

\* catIndex[cat]; a category that is not in categoryOrder reads the zero value
catIndex(cat) ==
    IF \E i \in 1..Len(categoryOrder) : categoryOrder[i] = cat
    THEN (CHOOSE i \in 1..Len(categoryOrder) : categoryOrder[i] = cat) - 1
    ELSE 0

\* the less function given to sort.SliceStable in sortedEvents
SortedLess(a, b) ==
    IF catIndex(a.Category) # catIndex(b.Category)
    THEN catIndex(a.Category) < catIndex(b.Category)
    ELSE After(a.CreatedAt, b.CreatedAt)

\* e put into the sorted sequence s behind every element it is not less than
StableInsert(s, e) ==
    LET k == Cardinality({i \in 1..Len(s) : \A j \in 1..i : ~SortedLess(e, s[j])})
    IN SubSeq(s, 1, k) \o <<e>> \o SubSeq(s, k + 1, Len(s))

\* sort.SliceStable: elements that compare equal keep the order they came in
RECURSIVE SliceStable(_)
SliceStable(s) ==
    IF s = <<>> THEN <<>>
    ELSE StableInsert(SliceStable(SubSeq(s, 1, Len(s) - 1)), s[Len(s)])

sortedEvents(events) == SliceStable(events)

\* the sequences in which the events the successful producers hold can have
\* been appended: either sub-fetch first in each adapter, either adapter first
GithubArrivals ==
    IF github.pc # "returned" THEN {<<>>}
    ELSE {github.primary \o github.ciEvents \o github.prEvents,
          github.primary \o github.prEvents \o github.ciEvents}
GitlabArrivals ==
    IF gitlab.pc # "returned" THEN {<<>>}
    ELSE {gitlab.primary \o gitlab.ciEvents \o gitlab.prEvents,
          gitlab.primary \o gitlab.prEvents \o gitlab.ciEvents}
ArrivalOrders ==
    UNION {{gh \o gl, gl \o gh} : gh \in GithubArrivals, gl \in GitlabArrivals}

\* C12: when run has generated the report, the rendered order of the merged
\* events (category rank, then newest first) is the one every other arrival
\* order of the same events would have given.
C12_OrderIndependent ==
    main.output # <<>> =>
        \A arrival \in ArrivalOrders :
            sortedEvents(arrival) = sortedEvents(main.output[1].events)

-----------------------------------------------------------------------------
(* Concurrency width *)

\* the goroutines of one adapter call that can still issue requests: the
\* caller while it is in phase 1, each sub-fetch goroutine until it has returned
Phase1Unit(g) == IF g.pc \in {"getUser", "request", "loop"} THEN 1 ELSE 0
CIUnit(g) == IF g.ciPc \in {"idle", "done"} THEN 0 ELSE 1
PendingUnit(g) == IF g.prPc \in {"idle", "done"} THEN 0 ELSE 1
Units(g) == Phase1Unit(g) + CIUnit(g) + PendingUnit(g)

RequestsIssued == net.github + net.gitlab

\* C13: at any moment at most four goroutines can be issuing requests: per
\* adapter either its phase 1 alone or at most its two sub-fetch goroutines;
\* every step issues at most one request, and a step of the CI loop handles
\* exactly one repository or project and issues at most one request for it.
C13_BoundedConcurrency ==
    [][/\ Units(github)' + Units(gitlab)' <= 4
       /\ Units(github)' <= 2 /\ Units(gitlab)' <= 2
       /\ Phase1Unit(github)' = 1 => CIUnit(github)' + PendingUnit(github)' = 0
       /\ Phase1Unit(gitlab)' = 1 => CIUnit(gitlab)' + PendingUnit(gitlab)' = 0
       /\ RequestsIssued' <= RequestsIssued + 1
       /\ (github.pc = "phase2" /\ github'.ciTodo # github.ciTodo) =>
             /\ Cardinality(github.ciTodo \ github'.ciTodo) = 1
             /\ github'.ciTodo \subseteq github.ciTodo
             /\ net'.github <= net.github + 1
       /\ (gitlab.pc = "phase2" /\ gitlab'.ciTodo # gitlab.ciTodo) =>
             /\ Cardinality(gitlab.ciTodo \ gitlab'.ciTodo) = 1
             /\ gitlab'.ciTodo \subseteq gitlab.ciTodo
             /\ net'.gitlab <= net.gitlab + 1]_vars

C13_Witness ==
    /\ Units(github) + Units(gitlab) = 4
    /\ github.ciPc = "fetch" /\ github.ciTodo # {} /\ github.prPc = "fetch"
    /\ gitlab.ciPc = "fetch" /\ gitlab.ciTodo # {} /\ gitlab.prPc = "loop"
    /\ RequestsIssued > 4

-----------------------------------------------------------------------------
(* Paging *)

PagingOver(platform, g) == platform \in net.empty => g.pc \notin {"request", "loop"}

\* C14: the GitHub adapter requests at most 10 primary-feed pages and the
\* GitLab adapter at most 100; the pages are requested one after the other by
\* the page loop; once the feed has answered with an empty page the adapter
\* has left the page loop and requests no further page; and, every request
\* being answered, run eventually returns.
C14_BoundedPaging ==
    /\ [](/\ net.ghPages <= GithubMaxPages /\ net.glPages <= GitlabMaxPages
          /\ PagingOver("github", github) /\ PagingOver("gitlab", gitlab))
    /\ [][/\ net'.ghPages # net.ghPages =>
               (/\ github.pc = "request" /\ "github" \notin net.empty
                /\ net'.ghPages = github.page /\ net.ghPages = github.page - 1)
          /\ net'.glPages # net.glPages =>
               (/\ gitlab.pc = "request" /\ "gitlab" \notin net.empty
                /\ net'.glPages = gitlab.page /\ net.glPages = gitlab.page - 1)]_vars
    /\ <>(main.pc = "returned")

C14_Witness ==
    /\ main.pc = "returned"
    /\ gitlab.pc = "returned"
    /\ net.glPages = GitlabMaxPages
    /\ "gitlab" \notin net.empty

-----------------------------------------------------------------------------
(* The Event invariant *)

\* the closed enumeration of EventCategory
Categories ==
    {CategoryCommit, CategoryPR, CategoryReview, CategoryReviewComment,
     CategoryIssue, CategoryComment, CategoryPipeline, CategoryPendingReview}

EventOK(ev, source) ==
    /\ ev.Category \in Categories
    /\ ev.Source = source /\ ev.Source # ""
    /\ ev.CreatedAt \in Times

AllOK(events, source) == \A i \in 1..Len(events) : EventOK(events[i], source)

-----------------------------------------------------------------------------
(* Malformed records *)

\* a GitHub record of a type parseEvent handles whose payload does not unmarshal
BadPayload(e) ==
    /\ e.Type \in {"PushEvent", "PullRequestEvent", "PullRequestReviewEvent",
                   "PullRequestReviewCommentEvent", "IssuesEvent", "IssueCommentEvent"}
    /\ ~e.Payload.valid

InWindow(t) == ~Before(t, since) /\ ~After(t, until)

\* C16 as stated: no malformed record makes an adapter return an error, be it
\* a record whose payload does not unmarshal or a record that does not decode
\* as an element of its page, so that the decoding of the page fails.
C16_AsStated ==
    /\ github.err # "decode" /\ gitlab.err # "decode"
    /\ \A e \in GhBadPayloads : GithubParseEvent(e) = <<>>

\* C16, amended: a GitHub record whose payload does not unmarshal gives no
\* event, and the page loop goes on past it: a page of in-window records adds
\* the events of all its other records, in order, and the adapter goes on to the
\* next page or to phase 2 without an error. A GitLab record that parseEvent
\* does not recognise adds no event and the loop goes on likewise. A page whose
\* body does not decode is not such a case: it makes FetchEvents return an
\* error and no events.
C16_BadPayloadDropped ==
    [][/\ \A e \in GhBadPayloads : BadPayload(e) /\ GithubParseEvent(e) = <<>>
       /\ (/\ github.pc = "loop"
           /\ \A i \in 1..Len(github.ghEvents) : InWindow(github.ghEvents[i].CreatedAt)) =>
             /\ github'.events =
                  github.events \o
                    Concat([i \in 1..Len(github.ghEvents) |->
                              IF BadPayload(github.ghEvents[i]) THEN <<>>
                              ELSE GithubParseEvent(github.ghEvents[i])])
             /\ github'.pc = IF github.page < GitHubPages THEN "request" ELSE "phase2"
             /\ github'.err = ""
       /\ (/\ gitlab.pc = "loop"
           /\ InWindow(gitlab.glEvents[gitlab.idx].CreatedAt)
           /\ \A pid \in 1..3 :
                GitlabParseEvent(gitlab.glEvents[gitlab.idx], Project(pid)) = <<>>) =>
             /\ gitlab'.events = gitlab.events
             /\ gitlab'.pc \in {"loop", "request", "phase2"}
             /\ gitlab'.pc = "loop" => gitlab'.idx = gitlab.idx + 1
             /\ gitlab'.err = ""
       /\ github'.err = "decode" => (github'.pc = "failed" /\ github'.events = <<>>)
       /\ gitlab'.err = "decode" => (gitlab'.pc = "failed" /\ gitlab'.events = <<>>)
       /\ github'.pc = "returned" => github'.err = ""
       /\ gitlab'.pc = "returned" => gitlab'.err = ""]_vars

C16_Witness ==
    /\ github.pc = "loop" /\ github.page = 2 /\ github.events # <<>>
    /\ github.ghEvents = <<GhBadPush, GhClosedMerged>>

-----------------------------------------------------------------------------
(* Project resolution *)

\* C17: in the GitLab adapter a failed project lookup is never fatal. In phase 1
\* the record that needed it adds no event and no project id, and the loop goes
\* on to the next record, the next page or phase 2; in the pending-review fetch
\* the merge request that needed it adds no event, nothing is printed, and the
\* loop goes on to the next merge request; the adapter fails only on its
\* identity or page requests and otherwise returns a nil error.
C17_UnresolvedSkipped ==
    [][/\ (gitlab.pc = "loop" /\ net'.resolveFailed # net.resolveFailed) =>
             /\ net'.resolveFailed = net.resolveFailed + 1
             /\ gitlab'.events = gitlab.events
             /\ gitlab'.projectIDs = gitlab.projectIDs
             /\ gitlab'.projectCache = gitlab.projectCache
             /\ gitlab'.err = ""
             /\ IF gitlab.idx < Len(gitlab.glEvents)
                THEN gitlab'.pc = "loop" /\ gitlab'.idx = gitlab.idx + 1
                ELSE IF gitlab.page < GitLabPages
                THEN gitlab'.pc = "request" /\ gitlab'.page = gitlab.page + 1
                ELSE gitlab'.pc = "phase2" /\ gitlab'.primary = gitlab.events
       /\ (/\ gitlab.prPc = "loop"
           /\ <<"gitlab", "pending project">> \in net'.failed \ net.failed) =>
             /\ gitlab'.prEvents = gitlab.prEvents
             /\ gitlab'.localCache = gitlab.localCache
             /\ stderr' = stderr
             /\ gitlab'.pc = "phase2" /\ gitlab'.err = ""
             /\ IF gitlab.prIdx < Len(gitlab.mrs)
                THEN gitlab'.prPc = "loop" /\ gitlab'.prIdx = gitlab.prIdx + 1
                ELSE gitlab'.prPc = "fetched"
       /\ gitlab'.pc = "failed" => Phase1Failed("gitlab")'
       /\ gitlab'.pc = "returned" => gitlab'.err = ""]_vars

C17_Witness ==
    /\ gitlab.pc = "returned" /\ gitlab.err = ""
    /\ net.resolveFailed = 1 /\ gitlab.primary # <<>>
    /\ Failed("gitlab", "pending project") /\ gitlab.prEvents # <<>>
    /\ Len(gitlab.mrs) = 2

\* cache b holds every entry of cache a, unchanged
Extends(b, a) == DOMAIN a \subseteq DOMAIN b /\ \A k \in DOMAIN a : b[k] = a[k]

\* resolveProject on cache for projectID, the lookup being answered by r:
\* a hit asks nothing and returns the cached project; a miss asks once; a
\* successful miss stores what it returns, after which the id is a hit with
\* the same project whatever the server would answer; a failed miss stores
\* nothing; no entry is removed or changed
Memoizes(cache, projectID, r) ==
    LET res == GitlabResolveProject(cache, projectID, r)
    IN /\ Extends(res.cache, cache)
       /\ DOMAIN res.cache \subseteq DOMAIN cache \cup {projectID}
       /\ projectID \in DOMAIN cache =>
            /\ ~res.requested /\ res.ok
            /\ res.proj = cache[projectID] /\ res.cache = cache
       /\ projectID \notin DOMAIN cache =>
            /\ res.requested
            /\ res.ok <=> Succeeds(r)
            /\ res.ok =>
                 /\ res.proj = r.body.v
                 /\ projectID \in DOMAIN res.cache /\ res.cache[projectID] = res.proj
                 /\ \A r2 \in Responses({Project(projectID)}) :
                      LET again == GitlabResolveProject(res.cache, projectID, r2)
                      IN /\ ~again.requested /\ again.ok
                         /\ again.proj = res.proj /\ again.cache = res.cache
            /\ ~res.ok => res.cache = cache

\* C18: resolveProject memoizes on the cache of each loop that calls it
\* (projectCache in the page loop, localCache in the pending-review loop), and
\* the adapter uses it so: a step of the phase-1 loop issues one request when the
\* record's project is not in projectCache and none when it is, and the caches
\* only ever gain entries.
C18_Memoized ==
    [][/\ gitlab.pc = "loop" =>
            \A projectID \in 1..3 : \A r \in Responses({Project(projectID)}) :
               Memoizes(gitlab.projectCache, projectID, r)
       /\ (gitlab.pc = "phase2" /\ gitlab.prPc = "loop") =>
            \A projectID \in 1..3 : \A r \in Responses({Project(projectID)}) :
               Memoizes(gitlab.localCache, projectID, r)
       /\ Extends(gitlab'.projectCache, gitlab.projectCache)
       /\ Extends(gitlab'.localCache, gitlab.localCache)
       /\ (gitlab.pc = "loop" /\ ~Before(gitlab.glEvents[gitlab.idx].CreatedAt, since)) =>
             LET projectID == gitlab.glEvents[gitlab.idx].ProjectID
             IN IF projectID \in DOMAIN gitlab.projectCache
                THEN /\ net'.gitlab = net.gitlab
                     /\ gitlab'.projectCache = gitlab.projectCache
                     /\ Len(gitlab'.events) > Len(gitlab.events)
                     /\ gitlab'.events[Len(gitlab'.events)].Repo =
                          gitlab.projectCache[projectID].PathWithNamespace
                ELSE /\ net'.gitlab = net.gitlab + 1
                     /\ net'.resolve = net.resolve + 1]_vars

C18_Witness ==
    /\ gitlab.pc = "phase2"
    /\ Cardinality(DOMAIN gitlab.projectCache) = 2
    /\ net.resolve = 2
    /\ Len(gitlab.primary) = 3

\* the page being ranged over is the single record e, which the window keeps
GithubRangesOver(e) ==
    /\ github.pc = "loop"
    /\ github.ghEvents = <<e>>
    /\ ~Before(e.CreatedAt, since) /\ ~After(e.CreatedAt, until)

\* t is the text of message before its first newline
IsFirstLineOf(t, message) ==
    /\ Len(t) <= Len(message)
    /\ \A j \in 1..Len(t) : t[j] = message[j] /\ t[j] # "\n"
    /\ Len(t) < Len(message) => message[Len(t) + 1] = "\n"

\* C19: ranging over a PushEvent whose payload carries k commits appends exactly
\* k events, the i-th a Commit event with action "pushed" whose title is the
\* first line of the i-th commit message.
C19_PushCommits ==
    [][\A e \in GhPushes :
         GithubRangesOver(e) =>
            LET k == Len(e.Payload.Commits)
                n == Len(github.events)
            IN /\ Len(github'.events) = n + k
               /\ SubSeq(github'.events, 1, n) = github.events
               /\ \A i \in 1..k :
                    LET ev == github'.events[n + i]
                    IN /\ ev.Category = CategoryCommit
                       /\ ev.Action = "pushed"
                       /\ IsFirstLineOf(ev.Title, e.Payload.Commits[i])]_vars

C19_Witness ==
    /\ github.pc \notin {"idle", "request", "loop"}
    /\ Len(github.events) = 3
    /\ \A i \in 1..3 : github.events[i].Category = CategoryCommit
    /\ github.events[1].Title = <<"F">>
    /\ github.events[2].Title = <<"G">>
    /\ github.events[3].Title = <<>>

\* C20: ranging over a PullRequestEvent appends exactly one PR event, whose
\* action is "merged" when the raw action is "closed" and the merged flag is
\* set, and the raw action otherwise.
C20_PullRequestAction ==
    [][\A e \in GhPulls :
         GithubRangesOver(e) =>
            LET n == Len(github.events)
                ev == github'.events[n + 1]
            IN /\ Len(github'.events) = n + 1
               /\ SubSeq(github'.events, 1, n) = github.events
               /\ ev.Category = CategoryPR
               /\ (e.Payload.Action = "closed" /\ e.Payload.Merged) => ev.Action = "merged"
               /\ ~(e.Payload.Action = "closed" /\ e.Payload.Merged) =>
                     ev.Action = e.Payload.Action]_vars

C20_Witness ==
    /\ github.pc \notin {"idle", "request", "loop"}
    /\ Len(github.events) = 1
    /\ github.events[1].Category = CategoryPR
    /\ github.events[1].Action = "opened"
    /\ net.ghPages = 2

(* CI failures *)

\* the pipeline events either adapter has collected or returned
GithubCIEvents == SelectSeq(github.ciEvents \o github.events,
                            LAMBDA ev : ev.Category = CategoryPipeline)
GitlabCIEvents == SelectSeq(gitlab.ciEvents \o gitlab.events,
                            LAMBDA ev : ev.Category = CategoryPipeline)

\* C21: every pipeline event an adapter holds is of a repository or project
\* phase 1 touched, carries a timestamp inside the window and, for GitLab, is
\* built from a pipeline the authenticated user triggered, whatever lists the
\* server returned.
C21_CIFailuresFiltered ==
    /\ \A i \in 1..Len(GithubCIEvents) :
         LET ev == GithubCIEvents[i]
         IN ev.Repo \in github.repos /\ InWindow(ev.CreatedAt)
    /\ \A i \in 1..Len(GitlabCIEvents) :
         LET ev == GitlabCIEvents[i]
         IN /\ \E pid \in gitlab.projectIDs :
                 /\ pid \in DOMAIN gitlab.cacheSnapshot
                 /\ ev.Repo = gitlab.cacheSnapshot[pid].PathWithNamespace
            /\ InWindow(ev.CreatedAt)
            /\ \E list \in GlPipelineLists \cup GlPipelineListsRun :
                 \E j \in 1..Len(list) :
                    /\ list[j].UserID = gitlab.userID
                    /\ ev.Title = <<"pipeline #", ToString(list[j].ID), " on ", list[j].Ref>>

(* Pending reviews *)

\* the step in which the GitHub reviewer query is answered with success
GithubPendingAnswered == github.prPc = "fetch" /\ github'.prPc = "fetched"

\* events is one pending-review event per element of items, in order, each
\* with the element's creation time
OnePerItem(events, items) ==
    /\ Len(events) = Len(items)
    /\ \A i \in 1..Len(items) :
         /\ events[i].Category = CategoryPendingReview
         /\ events[i].CreatedAt = items[i].CreatedAt
         /\ events[i].Title[2] = ToString(items[i].Number)

GithubPendingComplete ==
    GithubPendingAnswered =>
       \E items \in GhItemListsPending : OnePerItem(github'.prEvents, items)

\* the merge request the GitLab pending loop is at, and the step that handles it
GitlabPendingAt == gitlab.mrs[gitlab.prIdx]
GitlabPendingHandled ==
    /\ gitlab.pc = "phase2" /\ gitlab.prPc = "loop"
    /\ gitlab'.prIdx # gitlab.prIdx \/ gitlab'.prPc # "loop"

\* C22 as stated: every request the reviewer query returns yields one
\* pending-review event, in both adapters.
C22_AsStated ==
    [][/\ GithubPendingComplete
       /\ GitlabPendingHandled =>
             /\ Len(gitlab'.prEvents) = Len(gitlab.prEvents) + 1
             /\ gitlab'.prEvents[Len(gitlab'.prEvents)].CreatedAt =
                   GitlabPendingAt.CreatedAt]_vars

\* C22, amended: GitHub yields one pending-review event per returned item; GitLab
\* yields one per returned merge request whose project resolves and none for one
\* whose lookup fails; neither looks at the creation time or at what phase 1
\* touched.
C22_PendingUnwindowed ==
    [][/\ GithubPendingComplete
       /\ GitlabPendingHandled =>
             IF GitlabPendingAt.ProjectID \in DOMAIN gitlab'.localCache
             THEN /\ Len(gitlab'.prEvents) = Len(gitlab.prEvents) + 1
                  /\ SubSeq(gitlab'.prEvents, 1, Len(gitlab.prEvents)) = gitlab.prEvents
                  /\ LET ev == gitlab'.prEvents[Len(gitlab'.prEvents)]
                     IN /\ ev.Category = CategoryPendingReview
                        /\ ev.CreatedAt = GitlabPendingAt.CreatedAt
                        /\ ev.Title[2] = ToString(GitlabPendingAt.IID)
             ELSE gitlab'.prEvents = gitlab.prEvents]_vars

C22_Witness ==
    /\ gitlab.pc = "phase2" /\ gitlab.prPc = "fetched"
    /\ Len(gitlab.mrs) = 3
    /\ gitlab.projectIDs = {2}
    /\ Len(gitlab.prEvents) = 2
    /\ gitlab.prEvents[1].CreatedAt = since
    /\ gitlab.prEvents[2].CreatedAt = MaxTime

(* Window boundaries *)

\* C23: every primary event an adapter holds or returns was created inside the
\* window, both ends included: since <= CreatedAt <= until.
C23_PrimaryInWindow ==
    /\ \A i \in 1..Len(GithubPrimary) :
         /\ since <= GithubPrimary[i].CreatedAt
         /\ GithubPrimary[i].CreatedAt <= until
    /\ \A i \in 1..Len(GitlabPrimary) :
         /\ since <= GitlabPrimary[i].CreatedAt
         /\ GitlabPrimary[i].CreatedAt <= until

(* Classification *)

\* parseEvent over the records of page from the i-th on, one after the other
RECURSIVE GithubClassified(_, _)
GithubClassified(page, i) ==
    IF i > Len(page) THEN <<>>
    ELSE GithubParseEvent(page[i]) \o GithubClassified(page, i + 1)

\* every record of the page being ranged over is inside the window
GithubRangesInWindow ==
    /\ github.pc = "loop"
    /\ \A i \in 1..Len(github.ghEvents) : InWindow(github.ghEvents[i].CreatedAt)

\* C24: what a pass of either range loop appends is parseEvent of the records
\* ranged over (and, for GitLab, of the project the cache holds for the
\* record), whatever was classified before and whatever else the state holds.
C24_Deterministic ==
    [][/\ GithubRangesInWindow =>
             github'.events = github.events \o GithubClassified(github.ghEvents, 1)
       /\ gitlab.pc = "loop" =>
             LET e == gitlab.glEvents[gitlab.idx]
             IN (~Before(e.CreatedAt, since)
                   /\ e.ProjectID \in DOMAIN gitlab'.projectCache) =>
                  gitlab'.events = gitlab.events
                      \o GitlabParseEvent(e, gitlab'.projectCache[e.ProjectID])]_vars

\* the same record classified on two pages gave the same event twice
C24_Witness ==
    /\ github.pc \notin {"idle", "request", "loop"}
    /\ net.ghPages = 2
    /\ Len(github.primary) = 2
    /\ github.primary[1] = github.primary[2]
    /\ github.primary[1].Category = CategoryReview

\* the category the rules of the GitLab parseEvent give a record, taken in
\* their order, or "" when no rule matches
GitlabRuleCategory(e) ==
    IF e.PushData.present THEN CategoryCommit
    ELSE IF e.TargetType = "MergeRequest"
    THEN (IF e.ActionName = "approved" THEN CategoryReview ELSE CategoryPR)
    ELSE IF e.TargetType = "Issue" THEN CategoryIssue
    ELSE IF e.Note.present
    THEN (IF e.Note.NoteableType = "MergeRequest"
          THEN CategoryReviewComment ELSE CategoryComment)
    ELSE ""

\* the record the GitLab range loop is at is classified in this step
GitlabClassifies(e) ==
    /\ gitlab.pc = "loop"
    /\ e = gitlab.glEvents[gitlab.idx]
    /\ ~Before(e.CreatedAt, since)
    /\ e.ProjectID \in DOMAIN gitlab'.projectCache

\* C26: a classified GitLab record appends no event when no rule matches it and
\* otherwise exactly one, of the category of the first rule that matches.
C26_FirstMatch ==
    [][\A e \in GlRecordsParse \cup GlRecordsOverlap :
         GitlabClassifies(e) =>
            LET n == Len(gitlab.events)
            IN /\ SubSeq(gitlab'.events, 1, n) = gitlab.events
               /\ IF GitlabRuleCategory(e) = ""
                  THEN Len(gitlab'.events) = n
                  ELSE /\ Len(gitlab'.events) = n + 1
                       /\ gitlab'.events[n + 1].Category = GitlabRuleCategory(e)]_vars

\* a record with push data and a merge request target was classified as a commit
C26_Witness ==
    /\ gitlab.pc \notin {"idle", "getUser", "request", "loop"}
    /\ Len(gitlab.primary) = 1
    /\ gitlab.primary[1].Category = CategoryCommit
    /\ gitlab.primary[1].Title = <<"both">>
    /\ gitlab.primary[1].CreatedAt = since
    /\ net.glPages = 2

(* Joins *)

GithubJoined == github.ciPc = "done" /\ github.prPc = "done"
GitlabJoined == gitlab.ciPc = "done" /\ gitlab.prPc = "done"

\* C27: the report exists only once every started task is done; FetchEvents has
\* returned its events only once both of its goroutines are done; the events an
\* adapter returned do not change afterwards, nor does the merged collection
\* once the report is generated, nor an adapter whose result a task has read.
C27_JoinOrdering ==
    [][/\ main'.output # <<>> =>
             /\ main'.githubTask \in {"none", "done"}
             /\ main'.gitlabTask \in {"none", "done"}
             /\ main'.allEvents = main.allEvents
             /\ main'.output = <<[events |-> main.allEvents]>>
       /\ github.pc = "returned" => (GithubJoined /\ github'.events = github.events)
       /\ gitlab.pc = "returned" => (GitlabJoined /\ gitlab'.events = gitlab.events)
       /\ main.githubTask \in {"locked", "done"} =>
             (github.pc \in {"returned", "failed"} /\ github' = github)
       /\ main.gitlabTask \in {"locked", "done"} =>
             (gitlab.pc \in {"returned", "failed"} /\ gitlab' = gitlab)]_vars

\* the report of a run whose two adapters both went through phase 2
C27_Witness ==
    /\ main.pc = "returned" /\ main.output # <<>>
    /\ github.pc = "returned" /\ gitlab.pc = "returned"
    /\ Len(github.events) > Len(github.primary)
    /\ Len(gitlab.events) > Len(gitlab.primary)
    /\ Len(main.allEvents) = Len(github.events) + Len(gitlab.events)

(* Phase 2 after an early stop *)

\* the page being ranged over holds a record older than since
GithubMeetsPast ==
    /\ github.pc = "loop"
    /\ \E i \in 1..Len(github.ghEvents) : Before(github.ghEvents[i].CreatedAt, since)

\* the repositories of the records before the first one older than since that
\* are not after until
GithubReposBeforeStop(page) ==
    {page[j].Repo : j \in {k \in 1..(GithubFirstPast(page) - 1) :
                              ~After(page[k].CreatedAt, until)}}

\* C28: the step that meets a record older than since starts both sub-fetches,
\* the CI one over the repositories collected up to that record; from then on
\* that set is fixed, and FetchEvents returns, after one CI request per
\* repository of it and the reviewer query, the primary events followed by
\* what the two sub-fetches appended.
C28_Phase2AfterStop ==
    [][/\ GithubMeetsPast =>
             /\ github'.pc = "phase2"
             /\ github'.ciPc = "fetch" /\ github'.prPc = "fetch"
             /\ github'.repos = github.repos \cup GithubReposBeforeStop(github.ghEvents)
             /\ github'.ciTodo = github'.repos
             /\ github'.ciEvents = <<>> /\ github'.prEvents = <<>>
       /\ github.pc = "phase2" =>
             /\ github'.repos = github.repos
             /\ github'.ciTodo \subseteq github.ciTodo
             /\ github'.pc \in {"phase2", "returned"}
       /\ github'.pc = "returned" =>
             /\ github'.ciTodo = {}
             /\ net'.github = 1 + net'.ghPages + Cardinality(github'.repos) + 1
             /\ github'.events \in
                   {github'.primary \o github'.ciEvents \o github'.prEvents,
                    github'.primary \o github'.prEvents \o github'.ciEvents}]_vars

\* returned after a single page that was not empty, below the page limit: phase 1
\* ended on an old record, and both sub-fetches gave events
C28_Witness ==
    /\ github.pc = "returned"
    /\ net.ghPages = 1 /\ "github" \notin net.empty /\ github.maxPages > 1
    /\ github.repos # {}
    /\ github.ciEvents # <<>> /\ github.prEvents # <<>>
    /\ Len(github.events) = Len(github.primary) + Len(github.ciEvents) + Len(github.prEvents)

(* Touched projects *)

\* C29: every touched project id has a cache entry throughout phase 1; from the
\* start of phase 2 on every touched id has an entry in the snapshot, the CI
\* fetch is over the touched ids, and each pass of its loop issues a request.
C29_TouchedCached ==
    [][/\ gitlab'.projectIDs \subseteq DOMAIN gitlab'.projectCache
       /\ gitlab'.pc \in {"phase2", "returned"} =>
             /\ gitlab'.projectIDs \subseteq DOMAIN gitlab'.cacheSnapshot
             /\ gitlab'.ciTodo \subseteq gitlab'.projectIDs
             /\ gitlab'.pc = "returned" => gitlab'.ciTodo = {}
       /\ (gitlab.pc # "phase2" /\ gitlab'.pc = "phase2") =>
             gitlab'.ciTodo = gitlab'.projectIDs
       /\ (gitlab.pc = "phase2" /\ gitlab'.ciTodo # gitlab.ciTodo) =>
             /\ net'.gitlab = net.gitlab + 1
             /\ Cardinality(gitlab'.ciTodo) = Cardinality(gitlab.ciTodo) - 1]_vars

\* the CI loop has gone over two touched projects
C29_Witness ==
    /\ gitlab.pc = "phase2"
    /\ Cardinality(gitlab.projectIDs) = 2
    /\ gitlab.ciPc = "fetch" /\ gitlab.ciTodo = {}
    /\ gitlab.ciEvents # <<>>

(* Failed lookups *)

\* the record the phase-1 loop is at needs a lookup: it is not older than since
\* and its project is not in the cache
GitlabLooksUp(e) ==
    /\ gitlab.pc = "loop"
    /\ e = gitlab.glEvents[gitlab.idx]
    /\ ~Before(e.CreatedAt, since)
    /\ e.ProjectID \notin DOMAIN gitlab.projectCache

\* C30: a record whose project is not in the cache issues one lookup, also when
\* an earlier lookup of that id failed; a failed lookup leaves the cache, the
\* touched ids and the events as they were; a successful one adds the entry of
\* that id and nothing else. The cache never holds an entry that is no project.
C30_FailureNotCached ==
    [][/\ \A pid \in DOMAIN gitlab'.projectCache : gitlab'.projectCache[pid] = Project(pid)
       /\ \A e \in GlRecords :
            GitlabLooksUp(e) =>
               /\ net'.resolve = net.resolve + 1
               /\ net'.gitlab = net.gitlab + 1
               /\ IF net'.resolveFailed = net.resolveFailed + 1
                  THEN /\ gitlab'.projectCache = gitlab.projectCache
                       /\ gitlab'.projectIDs = gitlab.projectIDs
                       /\ gitlab'.events = gitlab.events
                  ELSE /\ net'.resolveFailed = net.resolveFailed
                       /\ DOMAIN gitlab'.projectCache =
                            DOMAIN gitlab.projectCache \cup {e.ProjectID}
                       /\ \A pid \in DOMAIN gitlab.projectCache :
                            gitlab'.projectCache[pid] = gitlab.projectCache[pid]]_vars

\* a lookup of a project failed, and a later lookup of the same project was
\* answered and cached
C30_Witness ==
    /\ net.resolveFailed = 1 /\ net.resolve = 2
    /\ Cardinality(net.referenced) = 1
    /\ DOMAIN gitlab.projectCache = net.referenced
    /\ Len(gitlab.events) = 1

(* The scope of the CI fetch *)

\* the records of page that are read: all of them, or those before the first
\* record older than since
GithubRead(page) ==
    IF \E i \in 1..Len(page) : Before(page[i].CreatedAt, since)
    THEN SubSeq(page, 1, GithubFirstPast(page) - 1)
    ELSE page

\* the repositories of the records of a sequence whose timestamp is in the window
ReposInWindow(records) ==
    {records[j].Repo : j \in {k \in 1..Len(records) :
                                 /\ since <= records[k].CreatedAt
                                 /\ records[k].CreatedAt <= until}}

\* C31: each pass over a page adds to repos exactly the repositories of the
\* records read on it whose timestamp is in the window, whether or not they
\* give events, and none of a record after until; when phase 2 starts the CI
\* fetch is over exactly repos, and each of its requests is for one of them.
C31_CIScope ==
    [][/\ github.pc = "loop" =>
             github'.repos = github.repos \cup ReposInWindow(GithubRead(github.ghEvents))
       /\ github.pc # "loop" => github'.repos = github.repos
       /\ (github.pc # "phase2" /\ github'.pc = "phase2") =>
             github'.ciTodo = github'.repos
       /\ github.pc = "phase2" =>
             /\ github'.ciTodo \subseteq github.ciTodo
             /\ github'.ciTodo # github.ciTodo =>
                  /\ Cardinality(github'.ciTodo) = Cardinality(github.ciTodo) - 1
                  /\ net'.github = net.github + 1]_vars

\* one page was read and gave no primary event, yet the repository of its
\* record in the window is the scope of the CI fetch, which has gone over it
C31_Witness ==
    /\ github.pc = "phase2"
    /\ net.ghPages = 1
    /\ github.primary = <<>>
    /\ github.repos = {"o/b"}
    /\ github.ciTodo = {} /\ github.ciPc = "fetch"

====
